---- MODULE Spec2Model ----
(***************************************************************************)
(* Millennium BLE proxy firmware: the central link (towards the real       *)
(* board), the peripheral link (towards the chess app), the relay          *)
(* coordinator of main.c, the protocol decoder and the USB console sink.   *)
(*                                                                         *)
(* Each C function is an operator with the function's name.  A function    *)
(* takes the module state it reads as records (c: ble_central.c statics,   *)
(* p: ble_peripheral.c statics, r: the radio stack's state, usb: the       *)
(* console's usb_ready) and returns a record with the state it leaves and  *)
(* fx, the calls it made to its collaborators, in order.  The actions at   *)
(* the end are the radio stack's events; each runs every callback the      *)
(* stack invokes for the event.                                            *)
(***************************************************************************)
EXTENDS Integers, Sequences, FiniteSets, TLC

VARIABLES central, peripheral, radio, usb_ready, phase, ev, fx, hist, env,
          console, main_vars

vars == <<central, peripheral, radio, usb_ready, phase, ev, fx, hist, env,
          console, main_vars>>

(***************************************************************************)
(* Bounds of the model.                                                    *)
(***************************************************************************)
\* frames recorded in the relay history (both directions together)
MaxFrames == 2
\* longest byte sequence given to the checksum functions
MaxCrcLen == 3
\* calls of the sink functions made by the two threads together
MaxSinkCalls == 3
\* bytes of a short traffic record
TrafficLen == 2
\* traffic records of a frame longer than output_buf has room for
MaxLongCalls == 1
\* events delivered between main's start of the advertiser and its loop
MaxEarlyEvents == 2

(***************************************************************************)
(* Values.                                                                 *)
(***************************************************************************)
NULL == "NULL"
\* a null char pointer, where a name (a sequence of character codes) can stand
NULL_NAME == <<-1>>
\* the two connection objects of the radio stack
BOARD_CONN == "board_conn"
APP_CONN == "app_conn"

DIR_APP_TO_BOARD == "APP->BOARD"
DIR_BOARD_TO_APP == "BOARD->APP"

BT_CONN_ROLE_CENTRAL == "central"
BT_CONN_ROLE_PERIPHERAL == "peripheral"

BT_GATT_CCC_NOTIFY == 1

TX_VALUE_SIZE == 244
CONFIG_VALUE_SIZE == 20
TARGET_NAME_MAX == 31

\* BT_UUID_128_ENCODE(0x49535343, 0xfe7d, 0x4ae5, 0x8fa9, 0x9fafd205e455):
\* the 16 bytes, least significant first
MILLENNIUM_SERVICE_UUID ==
    <<85, 228, 5, 210, 175, 159, 169, 143, 229, 74, 125, 254, 67, 83, 83, 73>>

\* "MILLENNIUM" as character codes
MILLENNIUM == <<77, 73, 76, 76, 69, 78, 78, 73, 85, 77>>

Min(a, b) == IF a < b THEN a ELSE b

\* one call made by a handler: k the callee, s a text or direction, h a
\* handle, d the bytes passed, m the decoded message, out whether the
\* console wrote the record out
Call(k, s, h, d, m, out) ==
    [k |-> k, s |-> s, h |-> h, d |-> d, m |-> m, out |-> out]

NoMsg == [t |-> "", n |-> 0, a |-> <<>>]

LOG_WRN(text) == <<Call("LOG_WRN", text, 0, <<>>, NoMsg, FALSE)>>
LOG_ERR(text) == <<Call("LOG_ERR", text, 0, <<>>, NoMsg, FALSE)>>
Radio(k, conn, h, d) == <<Call(k, conn, h, d, NoMsg, FALSE)>>

(***************************************************************************)
(* usb_console.c                                                           *)
(***************************************************************************)
usb_console_log_traffic(usb, dir, data) ==
    <<Call("usb_console_log_traffic", dir, 0, data, NoMsg,
           usb /\ Len(data) > 0)>>

usb_console_log_decoded(usb, dir, msg) ==
    <<Call("usb_console_log_decoded", dir, 0, <<>>, msg, usb)>>

usb_console_log_status(usb, text) ==
    <<Call("usb_console_log_status", text, 0, <<>>, NoMsg, usb)>>

(***************************************************************************)
(* usb_console.c, statement by statement: the callers of the sink run in   *)
(* two threads, the main thread and the thread of the radio stack that     *)
(* runs the callbacks.  A sink function is a sequence of steps of one      *)
(* thread; the steps of the two threads interleave.                        *)
(***************************************************************************)
MAIN_THREAD == "main"
BT_RX_THREAD == "bt_rx"
Threads == {MAIN_THREAD, BT_RX_THREAD}

\* the sink functions each thread calls: main.c calls usb_console_printf
\* and usb_console_log_status, the callbacks call the three log functions
SinkCallsOf(t) ==
    IF t = MAIN_THREAD
    THEN {"usb_console_printf", "usb_console_log_status"}
    ELSE {"usb_console_log_traffic", "usb_console_log_decoded",
          "usb_console_log_status"}

\* a thread outside the sink
ThreadIdle == [pc |-> "idle", fn |-> "none", len |-> 0, calls |-> 0,
               i |-> 0, n |-> 0, pos |-> 0]

OUTPUT_BUF_SIZE == 512

\* characters of "[HH:MM:SS.mmm] APP->BOARD:", what the first snprintf of
\* usb_console_log_traffic returns
TRAFFIC_HEAD_LEN == 26

\* rounds of the hex loop of usb_console_log_traffic: it runs while
\* i < len and pos < OUTPUT_BUF_SIZE - 4, pos growing by 3 a byte
HexShown(len) ==
    Min(len, ((OUTPUT_BUF_SIZE - 4 - TRAFFIC_HEAD_LEN) + 2) \div 3)

\* output_mutex after k_mutex_init, output_buf empty, nothing written to
\* the CDC device; acquired lists the calls in the order they took the mutex
ConsoleIdle ==
    [output_mutex |-> "none", output_buf |-> <<>>, uart |-> <<>>,
     acquired |-> <<>>, thread |-> [t \in Threads |-> ThreadIdle]]

\* the call a thread is in
CallId(th, t) == [who |-> t, k |-> th.calls, fn |-> th.fn, len |-> th.len]

\* one piece of a record: part is "ts", "label", "hex", "text" or "crlf"
Piece(id, part, j) == [id |-> id, part |-> part, j |-> j]

\* snprintf(output_buf, OUTPUT_BUF_SIZE, ...): what the first formatting
\* call of each function leaves in the buffer
FormatHead(id) ==
    IF id.fn = "usb_console_log_traffic"
    THEN <<Piece(id, "ts", 0), Piece(id, "label", 0)>>
    ELSE IF id.fn = "usb_console_printf"
    THEN <<Piece(id, "text", 0)>>
    ELSE <<Piece(id, "ts", 0), Piece(id, "label", 0), Piece(id, "text", 0),
           Piece(id, "crlf", 0)>>

\* the whole record of a call: of a traffic record, the bytes the hex loop
\* has room for, and "\r\n" if pos < OUTPUT_BUF_SIZE - 2 after the loop
RecordOf(id) ==
    IF id.fn = "usb_console_log_traffic"
    THEN FormatHead(id)
         \o [j \in 1..HexShown(id.len) |-> Piece(id, "hex", j)]
         \o (IF TRAFFIC_HEAD_LEN + 3 * HexShown(id.len) < OUTPUT_BUF_SIZE - 2
             THEN <<Piece(id, "crlf", 0)>> ELSE <<>>)
    ELSE FormatHead(id)

\* the records of a list of calls, one after the other
RECURSIVE RecordsOf(_)
RecordsOf(ids) ==
    IF ids = <<>> THEN <<>>
    ELSE RecordOf(ids[1]) \o RecordsOf(Tail(ids))

\* the two calls usb_console_init makes once it has set usb_ready
\* (usb_console.c:80-81), none when the device is not ready
UsbInitCalls(usb) ==
    IF usb
    THEN <<[who |-> MAIN_THREAD, k |-> 1, fn |-> "usb_console_log_status",
            len |-> 0],
           [who |-> MAIN_THREAD, k |-> 2, fn |-> "usb_console_log_status",
            len |-> 0]>>
    ELSE <<>>

\* k_mutex_lock(&output_mutex, K_FOREVER): the caller goes on only once the
\* mutex is free, and then owns it
k_mutex_lock_no_wait(mutex, t) ==
    [go |-> TRUE, owner |-> IF mutex = "none" THEN t ELSE mutex]

k_mutex_lock(mutex, t) ==
    [go |-> mutex = "none", owner |-> t]

\* k_mutex_unlock(&output_mutex): only the owner releases it
k_mutex_unlock(mutex, t) == IF mutex = t THEN "none" ELSE mutex

\* str[i] of cdc_write_string: the buffer as it is when the byte is read
BufferAt(buf, i) ==
    IF i + 1 <= Len(buf) THEN buf[i + 1]
    ELSE Piece([who |-> "none", k |-> 0, fn |-> "none", len |-> 0], "stale", i)

(***************************************************************************)
(* protocol.h / protocol.c                                                 *)
(***************************************************************************)
isprint(ch) == ch >= 32 /\ ch <= 126

Strip(b) == b % 128

RECURSIVE Xor(_, _, _)
\* bitwise XOR of the low w bits of a and b
Xor(a, b, w) ==
    IF w = 0 THEN 0
    ELSE (((a % 2) + (b % 2)) % 2) + 2 * Xor(a \div 2, b \div 2, w - 1)

RECURSIVE millennium_crc_from(_, _, _)
millennium_crc_from(data, i, n) ==
    IF i > n THEN 0
    ELSE Xor(data[i], millennium_crc_from(data, i + 1, n), 8)

\* faulty variant: the top bit of the bytes is left out of the checksum
millennium_crc_low_bits(data, len) ==
    millennium_crc_from(data, 1, len) % 128

millennium_crc(data, len) == millennium_crc_from(data, 1, len)

\* faulty variant: a single byte is taken as a frame with an empty body
protocol_validate_crc_accepts_one(data) ==
    IF Len(data) < 1 THEN FALSE
    ELSE millennium_crc(data, Len(data) - 1) = data[Len(data)]

protocol_validate_crc(data) ==
    IF Len(data) < 2 THEN FALSE
    ELSE millennium_crc(data, Len(data) - 1) = data[Len(data)]

\* characters %zu prints for n
RECURSIVE Digits(_)
Digits(n) == IF n < 10 THEN 1 ELSE 1 + Digits(n \div 10)

\* bytes the hex loop of the RAW branch prints: it runs while pos < 252,
\* pos starting after "RAW[len]: " and growing by 3 a byte
RawShown(len) ==
    LET p0 == 7 + Digits(len)
        room == IF p0 >= 252 THEN 0 ELSE ((252 - p0) + 2) \div 3
    IN Min(len, room)

\* characters written with %c or %s before the first 0: msg is handed on as
\* a C string, which ends at the first character 0
RECURSIVE CStrLenFrom(_, _)
CStrLenFrom(chars, i) ==
    IF i > Len(chars) \/ chars[i] = 0 THEN i - 1
    ELSE CStrLenFrom(chars, i + 1)

CStrLen(chars) == CStrLenFrom(chars, 1)

CStr(chars) == SubSeq(chars, 1, CStrLen(chars))

\* the version string: bytes 1..len-2 with bit 7 cleared, at most 63,
\* printed with %s
VersionChars(data) ==
    LET n == Min(Len(data) - 2, 63)
    IN CStr([i \in 1..n |-> Strip(data[i + 1])])

\* "a b c d e f g h", the line under the grid
FileLegend == <<97, 98, 99, 100, 101, 102, 103, 104>>

\* the 8x8 grid, rank 8 first: row k is rank 9-k, files a..h, and the
\* legend after the rows.  The squares are printed with %c: the text ends
\* at the first square that is 0 once bit 7 is cleared, in the middle of
\* its row, without the rows after it and without the legend.
BoardGrid(data) ==
    LET sq == [i \in 1..64 |->
                 Strip(data[((7 - ((i - 1) \div 8)) * 8 + ((i - 1) % 8) + 1) + 1])]
        shown == CStrLen(sq)
        rows == IF shown = 64 THEN 8 ELSE (shown \div 8) + 1
    IN [k \in 1..rows |->
          [f \in 1..Min(8, shown - (k - 1) * 8) |-> sq[(k - 1) * 8 + f]]]
       \o (IF shown = 64 THEN <<FileLegend>> ELSE <<>>)

\* faulty variant of the LED branch: the square is split by 8, not by 9
DecodeLed_by_eight(data) ==
    IF Len(data) >= 3
    THEN LET square == Strip(data[2])
             state == Strip(data[3])
             file == square % 8
             rank == square \div 8
         IN [t |-> "CMD: LED", n |-> square,
             a |-> <<IF file >= 1 /\ file <= 8 THEN 97 + file - 1 ELSE 63,
                     rank>> \o CStr(<<state>>)]
    ELSE [t |-> "CMD: LED (incomplete)", n |-> 0, a |-> <<>>]

\* case 'L': square, the file's letter (or '?'), the rank and the state
\* (printed with %c: nothing is shown for a state that is 0)
DecodeLed(data) ==
    IF Len(data) >= 3
    THEN LET square == Strip(data[2])
             state == Strip(data[3])
             file == square % 9
             rank == square \div 9
         IN [t |-> "CMD: LED", n |-> square,
             a |-> <<IF file >= 1 /\ file <= 8 THEN 97 + file - 1 ELSE 63,
                     rank>> \o CStr(<<state>>)]
    ELSE [t |-> "CMD: LED (incomplete)", n |-> 0, a |-> <<>>]

\* bytes the loop of the default branch prints, the text being pos0 long
\* before it: the loop runs while pos < 252, and a printable character
\* takes 1 position, any other byte 4
DefaultShown(data, pos0) ==
    LET before(k) ==
          pos0 + (k - 1)
          + 3 * Cardinality({i \in 1..(k - 1) : ~isprint(Strip(data[i]))})
    IN Cardinality({k \in 1..Len(data) : before(k) < 252})

\* the message protocol_decode_and_log builds for a non-empty frame
protocol_decode(data) ==
    LET len == Len(data)
        cmd == Strip(data[1])
    IN IF ~isprint(cmd) /\ cmd # 13 /\ cmd # 10
       THEN [t |-> "RAW", n |-> len, a |-> SubSeq(data, 1, RawShown(len))]
       ELSE CASE cmd = 86 -> [t |-> "CMD: VERSION request", n |-> 0, a |-> <<>>]
              [] cmd = 118 ->
                   IF len > 2
                   THEN [t |-> "RESP: VERSION =", n |-> 0, a |-> VersionChars(data)]
                   ELSE [t |-> "RESP: VERSION (empty)", n |-> 0, a |-> <<>>]
              [] cmd = 83 -> [t |-> "CMD: BOARD STATE request", n |-> 0, a |-> <<>>]
              [] cmd = 115 ->
                   IF len >= 66
                   THEN [t |-> "RESP: BOARD STATE", n |-> 0, a |-> BoardGrid(data)]
                   ELSE [t |-> "RESP: BOARD STATE (bytes, expected 66)",
                         n |-> len, a |-> <<>>]
              [] cmd = 76 -> DecodeLed(data)
              [] cmd = 88 -> [t |-> "CMD: ALL LEDs OFF", n |-> 0, a |-> <<>>]
              [] cmd = 82 -> [t |-> "CMD: RESET", n |-> 0, a |-> <<>>]
              [] cmd = 114 -> [t |-> "RESP: ACK", n |-> 0, a |-> <<>>]
              [] cmd = 66 -> [t |-> "CMD: BEEP", n |-> 0, a |-> <<>>]
              [] cmd = 87 -> [t |-> "CMD: SCAN ON", n |-> 0, a |-> <<>>]
              [] cmd = 73 -> [t |-> "CMD: SCAN OFF", n |-> 0, a |-> <<>>]
              [] OTHER ->
                   [t |-> IF isprint(cmd) THEN "CMD: 'c' (0xhh) [" ELSE "CMD: 0xhh [",
                    n |-> cmd,
                    a |-> SubSeq(data, 1,
                                 DefaultShown(data, IF isprint(cmd) THEN 17 ELSE 11))]

\* faulty variant: a frame that is not text is not logged
protocol_decode_and_log_skips_raw(usb, dir, data) ==
    IF Len(data) = 0 THEN <<>>
    ELSE IF protocol_decode(data).t = "RAW" THEN <<>>
    ELSE usb_console_log_decoded(usb, dir, protocol_decode(data))

protocol_decode_and_log(usb, dir, data) ==
    IF Len(data) = 0 THEN <<>>
    ELSE usb_console_log_decoded(usb, dir, protocol_decode(data))

(***************************************************************************)
(* The radio stack as the firmware sees it.  r is its state:               *)
(*   scanning, advertising   a scan / an advertiser is running             *)
(*   bl   the board's link: "idle" (the board advertises), "connecting"    *)
(*        (create issued, the board still advertises), "up"                *)
(*   al   the app's link: "idle" or "up"                                   *)
(*   tbl  the attribute table of the connected board (index in Tables)     *)
(*   disc 0, or the index of the next attribute a running discovery will   *)
(*        report (Len + 1: the terminating NULL)                           *)
(*   sub  the stack's subscription: "none", "pending" (request sent, not   *)
(*        answered by the board), "active"                                 *)
(* The *_results operators are what a request can return in a state.  A    *)
(* request on a NULL connection is undefined: the stack asserts (FATAL)    *)
(* or reads a state that is not connected.                                 *)
(***************************************************************************)
bt_le_scan_start_results(r) ==
    IF r.scanning THEN {"EALREADY"} ELSE {"OK", "EIO"}

bt_le_adv_start_results(r) ==
    IF r.advertising THEN {"EALREADY"} ELSE {"OK", "EIO"}

bt_conn_le_create_results(r) ==
    IF r.bl # "idle" THEN {"EINVAL"} ELSE {"OK", "ENOMEM"}

bt_gatt_discover_results(r, conn) ==
    IF conn = NULL THEN {"FATAL", "ENOTCONN"}
    ELSE IF r.bl # "up" THEN {"ENOTCONN"}
    ELSE {"OK", "ENOMEM"}

bt_gatt_subscribe_results(r, conn) ==
    IF conn = NULL THEN {"FATAL", "ENOTCONN"}
    ELSE IF r.bl # "up" THEN {"ENOTCONN"}
    ELSE IF r.sub # "none" THEN {"EALREADY"}
    ELSE {"OK", "ENOMEM"}

bt_gatt_write_results(r) ==
    IF r.bl # "up" THEN {"ENOTCONN"} ELSE {"OK", "ENOMEM"}

bt_gatt_notify_results(r) ==
    IF r.al # "up" THEN {"ENOTCONN"} ELSE {"OK", "ENOMEM"}

(***************************************************************************)
(* ble_central.c                                                           *)
(***************************************************************************)
\* strncpy(dst, src, n) into a buffer of zeros: the string that is stored
strncpy(src, n) == IF Len(src) > n THEN SubSeq(src, 1, n) ELSE src

\* one round of the copying loop of strncpy, dst[i] = src[i] with i counted
\* from 0 and i < strlen(src): dst is the string in the buffer, whose bytes
\* behind the terminator are 0
strncpy_at(dst, src, i) ==
    IF i < Len(dst) THEN [dst EXCEPT ![i + 1] = src[i + 1]]
    ELSE IF i = Len(dst) THEN Append(dst, src[i + 1])
    ELSE dst

\* the rest of strncpy once src is copied: zeros up to n bytes
strncpy_pad(dst, src, n) ==
    IF Len(src) < n /\ Len(dst) > Len(src) THEN SubSeq(dst, 1, Len(src))
    ELSE dst

ble_central_is_connected(c) == c.connected /\ c.subscribed

\* target_name is NULL_NAME or a name; serr is what bt_le_scan_start returns
ble_central_start_scan(c, r, usb, target_name, serr) ==
    IF c.connected
    THEN [ret |-> "OK", c |-> c, r |-> r,
          fx |-> LOG_WRN("Already connected, not scanning")]
    ELSE LET c1 == [c EXCEPT !.target_name_filter =
                        IF target_name # NULL_NAME
                        THEN strncpy(target_name, TARGET_NAME_MAX)
                        ELSE <<>>]
             call == <<Call("bt_le_scan_start", "", 0, c1.target_name_filter,
                            NoMsg, serr = "OK")>>
         IN IF serr # "OK"
            THEN [ret |-> serr, c |-> c1, r |-> r,
                  fx |-> call \o LOG_ERR("Scan start failed")]
            ELSE [ret |-> "OK", c |-> c1,
                  r |-> [r EXCEPT !.scanning = TRUE],
                  fx |-> call \o usb_console_log_status(usb,
                             "Scanning for real Millennium board...")]

\* the argument of the two restarts: target_name_filter[0] ? filter : NULL
FilterOrNull(c) ==
    IF Len(c.target_name_filter) > 0 /\ c.target_name_filter[1] # 0
    THEN c.target_name_filter ELSE NULL_NAME

\* faulty variant: the write goes to the TX handle
ble_central_send_to_tx_handle(c, r, usb, data, werr) ==
    IF ~c.connected \/ c.real_board_conn = NULL
    THEN [ret |-> "ENOTCONN", fx |-> LOG_WRN("Not connected to real board")]
    ELSE IF c.rx_handle = 0
    THEN [ret |-> "EINVAL", fx |-> LOG_ERR("RX handle not discovered")]
    ELSE [ret |-> werr,
          fx |-> usb_console_log_traffic(usb, DIR_APP_TO_BOARD, data)
                 \o <<Call("bt_gatt_write_without_response", c.real_board_conn,
                           c.tx_handle, data, NoMsg, werr = "OK")>>
                 \o (IF werr # "OK" THEN LOG_ERR("Write failed") ELSE <<>>)]

\* faulty variant: the RX handle is not checked
ble_central_send_rx_unchecked(c, r, usb, data, werr) ==
    IF ~c.connected \/ c.real_board_conn = NULL
    THEN [ret |-> "ENOTCONN", fx |-> LOG_WRN("Not connected to real board")]
    ELSE [ret |-> werr,
          fx |-> usb_console_log_traffic(usb, DIR_APP_TO_BOARD, data)
                 \o <<Call("bt_gatt_write_without_response", c.real_board_conn,
                           c.rx_handle, data, NoMsg, werr = "OK")>>
                 \o (IF werr # "OK" THEN LOG_ERR("Write failed") ELSE <<>>)]

ble_central_send(c, r, usb, data, werr) ==
    IF ~c.connected \/ c.real_board_conn = NULL
    THEN [ret |-> "ENOTCONN", fx |-> LOG_WRN("Not connected to real board")]
    ELSE IF c.rx_handle = 0
    THEN [ret |-> "EINVAL", fx |-> LOG_ERR("RX handle not discovered")]
    ELSE [ret |-> werr,
          fx |-> usb_console_log_traffic(usb, DIR_APP_TO_BOARD, data)
                 \o <<Call("bt_gatt_write_without_response", c.real_board_conn,
                           c.rx_handle, data, NoMsg, werr = "OK")>>
                 \o (IF werr # "OK" THEN LOG_ERR("Write failed") ELSE <<>>)]

\* faulty variant: only the TX value handle is checked
subscribe_to_tx_ccc_unchecked(c, r, usb, serr) ==
    IF c.tx_handle = 0
    THEN [ret |-> "EINVAL", c |-> c, r |-> r, halt |-> FALSE,
          fx |-> LOG_ERR("TX handles not discovered")]
    ELSE LET call == <<Call("bt_gatt_subscribe", c.real_board_conn, c.tx_handle,
                            <<c.tx_ccc_handle>>, NoMsg, serr = "OK")>>
         IN IF serr = "FATAL"
            THEN [ret |-> serr, c |-> c, r |-> r, halt |-> TRUE, fx |-> call]
            ELSE IF serr # "OK"
            THEN [ret |-> serr, c |-> c, r |-> r, halt |-> FALSE,
                  fx |-> call \o LOG_ERR("Subscribe failed")]
            ELSE [ret |-> "OK", c |-> [c EXCEPT !.subscribed = TRUE],
                  r |-> [r EXCEPT !.sub = "pending"], halt |-> FALSE,
                  fx |-> call \o usb_console_log_status(usb,
                             "Subscribed to real board notifications")]

subscribe_to_tx(c, r, usb, serr) ==
    IF c.tx_handle = 0 \/ c.tx_ccc_handle = 0
    THEN [ret |-> "EINVAL", c |-> c, r |-> r, halt |-> FALSE,
          fx |-> LOG_ERR("TX handles not discovered")]
    ELSE LET call == <<Call("bt_gatt_subscribe", c.real_board_conn, c.tx_handle,
                            <<c.tx_ccc_handle>>, NoMsg, serr = "OK")>>
         IN IF serr = "FATAL"
            THEN [ret |-> serr, c |-> c, r |-> r, halt |-> TRUE, fx |-> call]
            ELSE IF serr # "OK"
            THEN [ret |-> serr, c |-> c, r |-> r, halt |-> FALSE,
                  fx |-> call \o LOG_ERR("Subscribe failed")]
            ELSE [ret |-> "OK", c |-> [c EXCEPT !.subscribed = TRUE],
                  r |-> [r EXCEPT !.sub = "pending"], halt |-> FALSE,
                  fx |-> call \o usb_console_log_status(usb,
                             "Subscribed to real board notifications")]

NoAttr == [uuid |-> "NULL", handle |-> 0]

\* attr is NoAttr at the end of the discovery; serr is what
\* bt_gatt_subscribe returns if it is called
discover_callback(c, r, usb, attr, serr) ==
    IF attr = NoAttr
    THEN IF c.tx_handle # 0
         THEN LET s == subscribe_to_tx(c, r, usb, serr)
              IN [c |-> s.c, r |-> s.r, halt |-> s.halt, fx |-> s.fx]
         ELSE [c |-> c, r |-> r, halt |-> FALSE,
               fx |-> LOG_ERR("TX characteristic not found")]
    ELSE LET c1 == IF attr.uuid = "TX"
                   THEN [c EXCEPT !.tx_handle = attr.handle] ELSE c
             c2 == IF attr.uuid = "RX"
                   THEN [c1 EXCEPT !.rx_handle = attr.handle] ELSE c1
             c3 == IF attr.uuid = "CCC" /\ c2.tx_handle # 0 /\ c2.tx_ccc_handle = 0
                   THEN [c2 EXCEPT !.tx_ccc_handle = attr.handle] ELSE c2
         IN [c |-> c3, r |-> r, halt |-> FALSE, fx |-> <<>>]

\* derr is what bt_gatt_discover returns
discover_services(c, r, derr) ==
    LET call == <<Call("bt_gatt_discover", c.real_board_conn, 0, <<>>,
                       NoMsg, derr = "OK")>>
    IN IF derr = "FATAL"
       THEN [ret |-> derr, r |-> r, halt |-> TRUE, fx |-> call]
       ELSE IF derr # "OK"
       THEN [ret |-> derr, r |-> r, halt |-> FALSE,
             fx |-> call \o LOG_ERR("Discovery start failed")]
       ELSE [ret |-> "OK", r |-> [r EXCEPT !.disc = 1], halt |-> FALSE,
             fx |-> call]

\* err is the event's error code (0: established)
connected_callback(c, r, usb, conn, err, derr) ==
    IF err # 0
    THEN [c |-> [c EXCEPT !.real_board_conn = NULL, !.connected = FALSE],
          r |-> r, halt |-> FALSE,
          fx |-> LOG_ERR("Connection failed")
                 \o usb_console_log_status(usb, "Failed to connect to real board")]
    ELSE LET c1 == [c EXCEPT !.connected = TRUE]
             d == discover_services(c1, r, derr)
         IN [c |-> c1, r |-> d.r, halt |-> d.halt,
             fx |-> usb_console_log_status(usb, "Connected to real Millennium board")
                    \o d.fx]

\* serr is what bt_le_scan_start returns
disconnected_callback(c, r, usb, conn, reason, serr) ==
    LET unref == IF c.real_board_conn # NULL
                 THEN Radio("bt_conn_unref", c.real_board_conn, 0, <<>>)
                 ELSE <<>>
        c1 == [c EXCEPT !.real_board_conn = NULL, !.connected = FALSE,
                        !.subscribed = FALSE, !.tx_handle = 0,
                        !.tx_ccc_handle = 0, !.rx_handle = 0]
        s == ble_central_start_scan(c1, r, usb, FilterOrNull(c1), serr)
    IN [c |-> s.c, r |-> s.r,
        fx |-> usb_console_log_status(usb, "Disconnected from real board")
               \o unref \o s.fx]

\* strnicmp(s1, s2, n) = 0, for s1 and s2 of at least n characters or
\* ended by a 0
Lower(ch) == IF ch >= 65 /\ ch <= 90 THEN ch + 32 ELSE ch

CharAt(s, i) == IF i <= Len(s) THEN s[i] ELSE 0

RECURSIVE strnicmp_eq(_, _, _, _)
strnicmp_eq(s1, s2, i, n) ==
    IF i > n THEN TRUE
    ELSE IF Lower(CharAt(s1, i)) # Lower(CharAt(s2, i)) THEN FALSE
    ELSE IF Lower(CharAt(s1, i)) = 0 THEN TRUE
    ELSE strnicmp_eq(s1, s2, i + 1, n)

\* one AD structure: found, or continue parsing
is_millennium_device(data) ==
    CASE data.type \in {"UUID128_ALL", "UUID128_SOME"} ->
           Len(data.data) >= 16
           /\ SubSeq(data.data, 1, 16) = MILLENNIUM_SERVICE_UUID
      [] data.type \in {"NAME_COMPLETE", "NAME_SHORTENED"} ->
           Len(data.data) >= 10 /\ strnicmp_eq(data.data, MILLENNIUM, 1, 10)
      [] OTHER -> FALSE

\* bt_data_parse: the structures in order, until one is found
IsMillennium(ad) == \E i \in 1..Len(ad) : is_millennium_device(ad[i])

\* cerr is what bt_conn_le_create returns, serr what bt_le_scan_start
\* returns when the scan is started again
scan_callback(c, r, usb, ad, cerr, serr) ==
    IF ~IsMillennium(ad)
    THEN [c |-> c, r |-> r, fx |-> <<>>]
    ELSE LET r1 == [r EXCEPT !.scanning = FALSE]
             pre == Radio("bt_le_scan_stop", "", 0, <<>>)
                    \o usb_console_log_status(usb, "Found Millennium board")
                    \o <<Call("bt_conn_le_create", BOARD_CONN, 0, <<>>, NoMsg,
                              cerr = "OK")>>
         IN IF cerr # "OK"
            THEN LET s == ble_central_start_scan(c, r1, usb, FilterOrNull(c),
                                                 serr)
                 IN [c |-> s.c, r |-> s.r,
                     fx |-> pre \o LOG_ERR("Connect failed")
                            \o usb_console_log_status(usb,
                                   "Failed to initiate connection")
                            \o s.fx]
            ELSE [c |-> [c EXCEPT !.real_board_conn = BOARD_CONN],
                  r |-> [r EXCEPT !.scanning = FALSE, !.bl = "connecting"],
                  fx |-> pre]

(***************************************************************************)
(* ble_peripheral.c                                                        *)
(***************************************************************************)
ble_peripheral_is_connected(p) == p.connected /\ p.tx_notifications_enabled

tx_ccc_changed(p, usb, value) ==
    LET on == (value = BT_GATT_CCC_NOTIFY)
    IN [p |-> [p EXCEPT !.tx_notifications_enabled = on],
        fx |-> usb_console_log_status(usb,
                   IF on THEN "App subscribed to TX notifications"
                   ELSE "App unsubscribed from TX notifications")]

\* nerr is what bt_gatt_notify returns
\* faulty variant: the notification carries the previous cached value
ble_peripheral_send_stale_value(p, data, nerr) ==
    IF ~p.connected \/ p.app_conn = NULL
    THEN [ret |-> "ENOTCONN", p |-> p, fx |-> LOG_WRN("No app connected")]
    ELSE IF ~p.tx_notifications_enabled
    THEN [ret |-> "EINVAL", p |-> p,
          fx |-> LOG_WRN("TX notifications not enabled")]
    ELSE [ret |-> nerr,
          p |-> [p EXCEPT !.tx_value =
                     SubSeq(data, 1, Min(Len(data), TX_VALUE_SIZE))],
          fx |-> <<Call("bt_gatt_notify", p.app_conn, 0, p.tx_value, NoMsg,
                        nerr = "OK")>>
                 \o (IF nerr # "OK" THEN LOG_ERR("Notify failed") ELSE <<>>)]

\* faulty variant: the notification is sent twice
ble_peripheral_send_twice(p, data, nerr) ==
    IF ~p.connected \/ p.app_conn = NULL
    THEN [ret |-> "ENOTCONN", p |-> p, fx |-> LOG_WRN("No app connected")]
    ELSE IF ~p.tx_notifications_enabled
    THEN [ret |-> "EINVAL", p |-> p,
          fx |-> LOG_WRN("TX notifications not enabled")]
    ELSE [ret |-> nerr,
          p |-> [p EXCEPT !.tx_value =
                     SubSeq(data, 1, Min(Len(data), TX_VALUE_SIZE))],
          fx |-> <<Call("bt_gatt_notify", p.app_conn, 0, data, NoMsg,
                        nerr = "OK"),
                   Call("bt_gatt_notify", p.app_conn, 0, data, NoMsg,
                        nerr = "OK")>>
                 \o (IF nerr # "OK" THEN LOG_ERR("Notify failed") ELSE <<>>)]

ble_peripheral_send(p, data, nerr) ==
    IF ~p.connected \/ p.app_conn = NULL
    THEN [ret |-> "ENOTCONN", p |-> p, fx |-> LOG_WRN("No app connected")]
    ELSE IF ~p.tx_notifications_enabled
    THEN [ret |-> "EINVAL", p |-> p,
          fx |-> LOG_WRN("TX notifications not enabled")]
    ELSE [ret |-> nerr,
          p |-> [p EXCEPT !.tx_value =
                     SubSeq(data, 1, Min(Len(data), TX_VALUE_SIZE))],
          fx |-> <<Call("bt_gatt_notify", p.app_conn, 0, data, NoMsg,
                        nerr = "OK")>>
                 \o (IF nerr # "OK" THEN LOG_ERR("Notify failed") ELSE <<>>)]

peripheral_connected(p, usb, conn, role, err) ==
    IF role # BT_CONN_ROLE_PERIPHERAL THEN [p |-> p, fx |-> <<>>]
    ELSE IF err # 0 THEN [p |-> p, fx |-> LOG_ERR("App connection failed")]
    ELSE [p |-> [p EXCEPT !.app_conn = conn, !.connected = TRUE],
          fx |-> Radio("bt_conn_ref", conn, 0, <<>>)
                 \o usb_console_log_status(usb, "Chess app connected")]

\* aerr is what bt_le_adv_start returns
ble_peripheral_start_advertising(r, usb, aerr) ==
    LET call == <<Call("bt_le_adv_start", "", 0, <<>>, NoMsg, aerr = "OK")>>
    IN IF aerr # "OK"
       THEN [ret |-> aerr, r |-> r,
             fx |-> call \o LOG_ERR("Advertising start failed")]
       ELSE [ret |-> "OK", r |-> [r EXCEPT !.advertising = TRUE],
             fx |-> call \o usb_console_log_status(usb,
                        "Advertising as 'MILLENNIUM CHESS' - waiting for app...")]

\* aerr is what bt_le_adv_start returns; the result of
\* ble_peripheral_start_advertising is not looked at
peripheral_disconnected(p, r, usb, conn, reason, aerr) ==
    IF conn # p.app_conn THEN [p |-> p, r |-> r, fx |-> <<>>]
    ELSE LET a == ble_peripheral_start_advertising(r, usb, aerr)
         IN [p |-> [p EXCEPT !.app_conn = NULL, !.connected = FALSE,
                             !.tx_notifications_enabled = FALSE],
             r |-> a.r,
             fx |-> usb_console_log_status(usb, "Chess app disconnected")
                    \o Radio("bt_conn_unref", p.app_conn, 0, <<>>)
                    \o a.fx]

(***************************************************************************)
(* main.c: the relay coordinator                                           *)
(***************************************************************************)
\* faulty variant: the frame is handed to the peripheral whatever its state
on_data_from_board_unguarded(p, usb, data, nerr) ==
    LET dec == protocol_decode_and_log(usb, DIR_BOARD_TO_APP, data)
        s == ble_peripheral_send(p, data, nerr)
    IN [p |-> s.p,
        fx |-> dec \o s.fx
               \o (IF s.ret # "OK"
                   THEN LOG_ERR("Failed to forward to app") ELSE <<>>)]

on_data_from_board(p, usb, data, nerr) ==
    LET dec == protocol_decode_and_log(usb, DIR_BOARD_TO_APP, data)
    IN IF ble_peripheral_is_connected(p)
       THEN LET s == ble_peripheral_send(p, data, nerr)
            IN [p |-> s.p,
                fx |-> dec \o s.fx
                       \o (IF s.ret # "OK"
                           THEN LOG_ERR("Failed to forward to app") ELSE <<>>)]
       ELSE [p |-> p,
             fx |-> dec \o LOG_WRN("App not connected, dropping board data")]

\* faulty variant: the frame is handed to the central whatever its state
on_data_from_app_unguarded(c, r, usb, data, werr) ==
    LET dec == protocol_decode_and_log(usb, DIR_APP_TO_BOARD, data)
        s == ble_central_send(c, r, usb, data, werr)
    IN [fx |-> dec \o s.fx
               \o (IF s.ret # "OK"
                   THEN LOG_ERR("Failed to forward to board") ELSE <<>>)]

on_data_from_app(c, r, usb, data, werr) ==
    LET dec == protocol_decode_and_log(usb, DIR_APP_TO_BOARD, data)
    IN IF ble_central_is_connected(c)
       THEN LET s == ble_central_send(c, r, usb, data, werr)
            IN [fx |-> dec \o s.fx
                       \o (IF s.ret # "OK"
                           THEN LOG_ERR("Failed to forward to board") ELSE <<>>)]
       ELSE [fx |-> dec \o LOG_WRN("Board not connected, dropping app data")]

(***************************************************************************)
(* The two data callbacks the stack calls.                                 *)
(***************************************************************************)
\* ble_central.c: has_data is FALSE for a NULL data pointer (the
\* subscription ended); nerr is what bt_gatt_notify returns
\* faulty variant: the end of the subscription also forgets the handles
notify_callback_forgets_handles(c, p, usb, has_data, data, nerr) ==
    IF ~has_data
    THEN [c |-> [c EXCEPT !.subscribed = FALSE, !.tx_handle = 0,
                          !.tx_ccc_handle = 0],
          p |-> p,
          fx |-> LOG_WRN("Unsubscribed from TX notifications")]
    ELSE LET f == on_data_from_board(p, usb, data, nerr)
         IN [c |-> c, p |-> f.p,
             fx |-> usb_console_log_traffic(usb, DIR_BOARD_TO_APP, data) \o f.fx]

notify_callback(c, p, usb, has_data, data, nerr) ==
    IF ~has_data
    THEN [c |-> [c EXCEPT !.subscribed = FALSE], p |-> p,
          fx |-> LOG_WRN("Unsubscribed from TX notifications")]
    ELSE LET f == on_data_from_board(p, usb, data, nerr)
         IN [c |-> c, p |-> f.p,
             fx |-> usb_console_log_traffic(usb, DIR_BOARD_TO_APP, data) \o f.fx]

BT_ATT_ERR_INVALID_ATTRIBUTE_LEN == 13
BT_ATT_ERR_INVALID_OFFSET == 7

\* ble_peripheral.c: the return value is len, or -err (BT_GATT_ERR)
\* faulty variant: a frame that was not forwarded is answered with 0 bytes
rx_write_callback_reports_loss(c, r, usb, buf, offset, werr) ==
    IF offset > 0 THEN [ret |-> -BT_ATT_ERR_INVALID_OFFSET, fx |-> <<>>]
    ELSE LET f == IF Len(buf) > 0
                  THEN on_data_from_app(c, r, usb, buf, werr).fx ELSE <<>>
             sent == SelectSeq(f, LAMBDA e :
                        e.k = "bt_gatt_write_without_response" /\ e.out)
         IN [ret |-> IF Len(sent) > 0 THEN Len(buf) ELSE 0, fx |-> f]

\* faulty variant: empty writes are handed to the data callback as well
rx_write_callback_forwards_empty(c, r, usb, buf, offset, werr) ==
    IF offset > 0 THEN [ret |-> -BT_ATT_ERR_INVALID_OFFSET, fx |-> <<>>]
    ELSE [ret |-> Len(buf), fx |-> on_data_from_app(c, r, usb, buf, werr).fx]

rx_write_callback(c, r, usb, buf, offset, werr) ==
    IF offset > 0 THEN [ret |-> -BT_ATT_ERR_INVALID_OFFSET, fx |-> <<>>]
    ELSE [ret |-> Len(buf),
          fx |-> IF Len(buf) > 0
                 THEN on_data_from_app(c, r, usb, buf, werr).fx ELSE <<>>]

\* the stack's read helper: value[offset..] cut to the reader's buffer, or
\* -BT_ATT_ERR_INVALID_OFFSET beyond the value's end
bt_gatt_attr_read(buf_len, offset, value) ==
    IF offset > Len(value)
    THEN [ret |-> -BT_ATT_ERR_INVALID_OFFSET, data |-> <<>>]
    ELSE LET n == Min(buf_len, Len(value) - offset)
         IN [ret |-> n, data |-> SubSeq(value, offset + 1, offset + n)]

\* the value read is the whole buffer: sizeof(config_value)
config_read_callback(p, len, offset) ==
    bt_gatt_attr_read(len, offset, p.config_value)

\* faulty variant: the length is checked before the offset
config_write_callback_length_first(p, buf, offset) ==
    IF Len(buf) > CONFIG_VALUE_SIZE
    THEN [ret |-> -BT_ATT_ERR_INVALID_ATTRIBUTE_LEN, p |-> p]
    ELSE IF offset > 0 THEN [ret |-> -BT_ATT_ERR_INVALID_OFFSET, p |-> p]
    ELSE [ret |-> Len(buf),
          p |-> [p EXCEPT !.config_value =
                     buf \o SubSeq(@, Len(buf) + 1, CONFIG_VALUE_SIZE)]]

\* memcpy(config_value, buf, len): the bytes beyond len stay
config_write_callback(p, buf, offset) ==
    IF offset > 0 THEN [ret |-> -BT_ATT_ERR_INVALID_OFFSET, p |-> p]
    ELSE IF Len(buf) > CONFIG_VALUE_SIZE
    THEN [ret |-> -BT_ATT_ERR_INVALID_ATTRIBUTE_LEN, p |-> p]
    ELSE [ret |-> Len(buf),
          p |-> [p EXCEPT !.config_value =
                     buf \o SubSeq(@, Len(buf) + 1, CONFIG_VALUE_SIZE)]]

\* the value read is tx_value[0 .. tx_value_len)
tx_read_callback(p, len, offset) ==
    bt_gatt_attr_read(len, offset, p.tx_value)

(***************************************************************************)
(* main.c: startup.  dev_ready: device_is_ready(cdc_dev); bt_err, adv_err, *)
(* scan_err: what bt_enable, bt_le_adv_start and bt_le_scan_start return.  *)
(***************************************************************************)
usb_console_init(dev_ready) ==
    IF ~dev_ready
    THEN [ret |-> "ENODEV", usb |-> FALSE,
          fx |-> LOG_ERR("CDC ACM device not ready")]
    ELSE [ret |-> "OK", usb |-> TRUE,
          fx |-> usb_console_log_status(TRUE, "Millennium BLE Proxy initialized")
                 \o usb_console_log_status(TRUE, "Waiting for connections...")]

print_banner(usb) ==
    [i \in 1..17 |-> Call("usb_console_printf", "banner", 0, <<>>, NoMsg, usb)]

\* led_init (main.c:91-108); led is what the LED's GPIO answers
led_init(led) ==
    IF led = "NOT_READY" THEN LOG_WRN("LED device not ready")
    ELSE IF led # "OK" THEN LOG_WRN("Failed to configure LED")
    ELSE <<>>

\* faulty variant: the result of bt_enable is looked at after the
\* advertiser was started
main_init_advertises_before_check(r, led, dev_ready, bt_err, adv_err) ==
    LET u == usb_console_init(dev_ready)
        usb == u.usb
        fx0 == led_init(led)
               \o (IF u.ret # "OK" THEN u.fx \o LOG_ERR("USB console init failed")
                   ELSE u.fx) \o print_banner(usb)
        call == <<Call("bt_le_adv_start", "", 0, <<>>, NoMsg, adv_err = "OK")>>
        r1 == IF adv_err = "OK" THEN [r EXCEPT !.advertising = TRUE] ELSE r
    IN IF bt_err # "OK"
       THEN [ret |-> bt_err, r |-> r1, usb |-> usb, go |-> FALSE,
             fx |-> fx0 \o call \o LOG_ERR("Bluetooth init failed")
                    \o usb_console_log_status(usb, "ERROR: Bluetooth init failed")]
       ELSE LET fx1 == fx0 \o usb_console_log_status(usb, "Bluetooth initialized")
            IN IF adv_err # "OK"
               THEN [ret |-> adv_err, r |-> r, usb |-> usb, go |-> FALSE,
                     fx |-> fx1 \o call \o LOG_ERR("Advertising start failed")
                            \o LOG_ERR("Advertising start failed")
                            \o usb_console_log_status(usb,
                                   "ERROR: Advertising failed")]
               ELSE [ret |-> "OK", r |-> r1, usb |-> usb, go |-> TRUE,
                     fx |-> fx1 \o call]

\* main from its start to the return of bt_le_adv_start (main.c:174-221,
\* ble_peripheral.c:265-278), and to its return when the start of the stack
\* or of the advertiser failed; go: the advertiser is on and main goes on.
\* From then on the radio stack runs the callbacks while main goes on.
main_init(r, led, dev_ready, bt_err, adv_err) ==
    LET u == usb_console_init(dev_ready)
        usb == u.usb
        fx0 == led_init(led)
               \o (IF u.ret # "OK" THEN u.fx \o LOG_ERR("USB console init failed")
                   ELSE u.fx) \o print_banner(usb)
        call == <<Call("bt_le_adv_start", "", 0, <<>>, NoMsg, adv_err = "OK")>>
    IN IF bt_err # "OK"
       THEN [ret |-> bt_err, r |-> r, usb |-> usb, go |-> FALSE,
             fx |-> fx0 \o LOG_ERR("Bluetooth init failed")
                    \o usb_console_log_status(usb, "ERROR: Bluetooth init failed")]
       ELSE LET fx1 == fx0 \o usb_console_log_status(usb, "Bluetooth initialized")
            IN IF adv_err # "OK"
               THEN [ret |-> adv_err, r |-> r, usb |-> usb, go |-> FALSE,
                     fx |-> fx1 \o call \o LOG_ERR("Advertising start failed")
                            \o LOG_ERR("Advertising start failed")
                            \o usb_console_log_status(usb,
                                   "ERROR: Advertising failed")]
               ELSE [ret |-> "OK", r |-> [r EXCEPT !.advertising = TRUE],
                     usb |-> usb, go |-> TRUE, fx |-> fx1 \o call]

\* the places of main between the return of bt_le_adv_start and its loop,
\* one for each call and each access to the central link's variables
MainTail ==
    {"main_adv_log", "main_scan_test", "main_scan_warn", "main_scan_store",
     "main_scan", "main_scan_err", "main_scan_log", "main_err",
     "main_err_log", "main_proxy_log"}

\* main's variables on the way: err, the error code in hand, and i, the
\* index of the copying loop of strncpy
MainVars == [err |-> "OK", i |-> 0]

\* one statement of main at pc, on the state the callbacks have left by
\* then: the record of ble_peripheral_start_advertising
\* (ble_peripheral.c:280-281), ble_central_start_scan("MILLENNIUM")
\* (ble_central.c:338-366) and the end of main (main.c:229-246).  The name
\* is stored one character a step.  loc holds main's variables, serr is what
\* bt_le_scan_start returns.
main_step(pc, c, r, usb, loc, serr) ==
    LET at(q, c1, r1, e1, calls) ==
            [pc |-> q, c |-> c1, r |-> r1, loc |-> [loc EXCEPT !.err = e1],
             fx |-> calls]
        call == <<Call("bt_le_scan_start", "", 0, c.target_name_filter,
                       NoMsg, serr = "OK")>>
    IN CASE pc = "main_adv_log" ->
              at("main_scan_test", c, r, "OK",
                 usb_console_log_status(usb,
                     "Advertising as 'MILLENNIUM CHESS' - waiting for app..."))
         [] pc = "main_scan_test" ->
              at(IF c.connected THEN "main_scan_warn" ELSE "main_scan_store",
                 c, r, loc.err, <<>>)
         [] pc = "main_scan_warn" ->
              at("main_proxy_log", c, r, "OK",
                 LOG_WRN("Already connected, not scanning"))
         [] pc = "main_scan_store" ->
              IF loc.i < Len(strncpy(MILLENNIUM, TARGET_NAME_MAX))
              THEN [pc |-> "main_scan_store",
                    c |-> [c EXCEPT !.target_name_filter =
                                      strncpy_at(@, MILLENNIUM, loc.i)],
                    r |-> r, loc |-> [loc EXCEPT !.i = @ + 1], fx |-> <<>>]
              ELSE at("main_scan",
                      [c EXCEPT !.target_name_filter =
                                  strncpy_pad(@, MILLENNIUM, TARGET_NAME_MAX)],
                      r, loc.err, <<>>)
         [] pc = "main_scan" ->
              IF serr # "OK"
              THEN at("main_scan_err", c, r, serr, call)
              ELSE at("main_scan_log", c, [r EXCEPT !.scanning = TRUE], "OK",
                      call)
         [] pc = "main_scan_err" ->
              at("main_err", c, r, loc.err, LOG_ERR("Scan start failed"))
         [] pc = "main_scan_log" ->
              at("main_proxy_log", c, r, "OK",
                 usb_console_log_status(usb,
                     "Scanning for real Millennium board..."))
         [] pc = "main_err" ->
              at("main_err_log", c, r, loc.err, LOG_ERR("Scan start failed"))
         [] pc = "main_err_log" ->
              at("exited", c, r, loc.err,
                 usb_console_log_status(usb, "ERROR: Scanning failed"))
         [] pc = "main_proxy_log" ->
              at("run", c, r, "OK",
                 usb_console_log_status(usb,
                     "Proxy initialized - scanning for board, advertising for app"))

\* the statements of main from pc on, no event of the radio stack on the way
RECURSIVE main_rest(_, _, _, _, _, _, _)
main_rest(pc, c, r, usb, loc, serr, calls) ==
    IF pc \notin MainTail
    THEN [ret |-> loc.err, c |-> c, r |-> r, usb |-> usb,
          looping |-> pc = "run", fx |-> calls]
    ELSE LET m == main_step(pc, c, r, usb, loc, serr)
         IN main_rest(m.pc, m.c, m.r, usb, m.loc, serr, calls \o m.fx)

\* main with no event of the radio stack on its way
main(c, r, led, dev_ready, bt_err, adv_err, scan_err) ==
    LET i == main_init(r, led, dev_ready, bt_err, adv_err)
    IN IF ~i.go
       THEN [ret |-> i.ret, c |-> c, r |-> i.r, usb |-> i.usb,
             looping |-> FALSE, fx |-> i.fx]
       ELSE main_rest("main_adv_log", c, i.r, i.usb,
                      [MainVars EXCEPT !.err = i.ret], scan_err, i.fx)

\* public functions no part of the firmware calls (ble_central.c:370-373,
\* 405-412, ble_peripheral.c:288-291, 326-333): each hands its request to
\* the radio stack and returns what the stack returns
ble_central_stop_scan(r) ==
    [ret |-> IF r.scanning THEN "OK" ELSE "EALREADY",
     r |-> [r EXCEPT !.scanning = FALSE],
     fx |-> Radio("bt_le_scan_stop", "", 0, <<>>)]

ble_peripheral_stop_advertising(r) ==
    [ret |-> "OK",
     r |-> [r EXCEPT !.advertising = FALSE],
     fx |-> Radio("bt_le_adv_stop", "", 0, <<>>)]

ble_central_disconnect(c, r) ==
    IF ~c.connected \/ c.real_board_conn = NULL
    THEN [ret |-> "OK", fx |-> <<>>]
    ELSE [ret |-> IF r.bl = "up" THEN "OK" ELSE "ENOTCONN",
          fx |-> Radio("bt_conn_disconnect", c.real_board_conn, 0, <<>>)]

ble_peripheral_disconnect(p, r) ==
    IF ~p.connected \/ p.app_conn = NULL
    THEN [ret |-> "OK", fx |-> <<>>]
    ELSE [ret |-> IF r.al = "up" THEN "OK" ELSE "ENOTCONN",
          fx |-> Radio("bt_conn_disconnect", p.app_conn, 0, <<>>)]

(***************************************************************************)
(* What the environment supplies.                                          *)
(***************************************************************************)
Attr(u, h) == [uuid |-> u, handle |-> h]

\* attribute tables a board can report, in discovery order; the first is
\* the layout of the service definition in ble_peripheral.c (Notify1's
\* CCC, TX, TX's CCC, RX, Notify2's CCC), the last the shortest complete one
Tables ==
    << <<Attr("OTHER", 3), Attr("OTHER", 5), Attr("CCC", 6), Attr("TX", 8),
         Attr("CCC", 9), Attr("RX", 11), Attr("OTHER", 13), Attr("CCC", 14)>>,
       <<Attr("TX", 8), Attr("CCC", 9)>>,
       <<Attr("RX", 11), Attr("TX", 8)>>,
       <<Attr("RX", 11), Attr("CCC", 14)>>,
       <<Attr("TX", 8), Attr("CCC", 9), Attr("RX", 11)>> >>

AdName(name) == [type |-> "NAME_COMPLETE", data |-> name]

\* advertising reports of the real board: its name, its service UUID
BoardAds ==
    { <<[type |-> "FLAGS", data |-> <<6>>],
        AdName(<<77, 73, 76, 76, 69, 78, 78, 73, 85, 77, 32, 67, 72, 69, 83, 83>>)>>,
      <<[type |-> "UUID128_ALL", data |-> MILLENNIUM_SERVICE_UUID]>> }

\* reports of other devices: "My Millennium", "MILLENNIU", no name
OtherAds ==
    { <<AdName(<<77, 121, 32, 77, 105, 108, 108, 101, 110, 110, 105, 117, 109>>)>>,
      <<AdName(<<77, 73, 76, 76, 69, 78, 78, 73, 85>>)>>,
      <<[type |-> "FLAGS", data |-> <<6>>]>> }

\* frames the app writes: empty, version request, board-state request
AppFrames == { <<>>, <<214, 214>>, <<83, 83>> }

\* frames the board notifies: empty, acknowledgment, a 66-byte board state
BoardStateFrame ==
    [i \in 1..66 |-> IF i = 1 THEN 115 ELSE IF i = 66 THEN 115 ELSE 46]

BoardFrames == { <<>>, <<114, 114>>, BoardStateFrame }

\* a frame one byte longer than the cache of the data-out characteristic
LongFrame == [i \in 1..(TX_VALUE_SIZE + 1) |-> 114]

\* values written to the configuration characteristic: empty, short, of
\* the buffer's size, one byte too long
ConfigWrites ==
    { <<>>, <<9>>,
      [i \in 1..CONFIG_VALUE_SIZE |-> 7],
      [i \in 1..(CONFIG_VALUE_SIZE + 1) |-> 7] }

\* room in the reader's buffer: a read at the default ATT MTU, a long one
ReadLens == {22, 512}

\* the step just taken.  early counts the events the radio stack has
\* delivered while main was between the start of the advertiser and the
\* start of the scan.
Event(name, conn, data, off, ret, res) ==
    [name |-> name, conn |-> conn, data |-> data, off |-> off, ret |-> ret,
     res |-> res, early |-> IF phase \in MainTail THEN ev.early + 1 ELSE 0]

\* the relay history: frames that reached a data callback, and the frames
\* the radio accepted for delivery, per direction; kept while on.
\* lastToApp, kept while keepLast, is the last frame accepted for the app.
Delivered(calls, k) ==
    LET sel == SelectSeq(calls, LAMBDA e : e.k = k /\ e.out)
    IN [i \in 1..Len(sel) |-> sel[i].d]

Recorded(h) == Len(h.fromApp) + Len(h.fromBoard)

(***************************************************************************)
(* The environment's range, fixed for a run (env never changes): which     *)
(* requests the radio may refuse for lack of resources, which tables,      *)
(* reports, reasons and frames occur.  FullEnv is everything above after a *)
(* startup without errors; RelayEnv, used where the relay history is kept, *)
(* is a board with the reference layout, a ready console and a radio that  *)
(* refuses a request only for the state it is in.  A run starts in FullEnv *)
(* or in RelayEnv with a startup in which the console, the LED and each    *)
(* start can fail.                                                         *)
(***************************************************************************)
FullEnv ==
    [faults |-> TRUE, start |-> {"OK"}, dev |-> {TRUE},
     led |-> {"OK"}, early |-> TRUE,
     tables |-> 1..Len(Tables),
     ads |-> OtherAds \cup BoardAds, reasons |-> {8, 19}, offsets |-> {0, 1},
     ccc |-> {0, 1, 2}, app |-> AppFrames, board |-> BoardFrames,
     config |-> ConfigWrites, readlens |-> ReadLens]

RelayEnv ==
    [faults |-> FALSE, start |-> {"OK"}, dev |-> {TRUE}, led |-> {"OK"},
     early |-> TRUE,
     tables |-> {Len(Tables)},
     ads |-> BoardAds, reasons |-> {19}, offsets |-> {0},
     ccc |-> {0, 1}, app |-> {<<214, 214>>, <<83, 83>>},
     board |-> {<<>>, <<114, 114>>},
     config |-> {<<>>}, readlens |-> {512}]

\* the environment where the attribute table is exercised: a reference
\* board, a startup without errors and without an event on its way, a
\* radio that may refuse a request later, a frame longer than the cache
GattEnv ==
    [faults |-> TRUE, start |-> {"OK"}, dev |-> {TRUE}, led |-> {"OK"},
     early |-> FALSE,
     tables |-> {Len(Tables)},
     ads |-> BoardAds, reasons |-> {19}, offsets |-> {0, 1},
     ccc |-> {0, 1}, app |-> {<<214, 214>>},
     board |-> {<<114, 114>>, LongFrame},
     config |-> ConfigWrites, readlens |-> ReadLens]

\* the results a request can have, within the run's environment
Within(e, results) ==
    IF e.faults THEN results ELSE results \ {"ENOMEM", "EIO"}

\* what bt_enable, bt_le_adv_start and bt_le_scan_start return at startup
StartErrs(e) == e.start

ConnErrs(e) == IF e.faults THEN {0, 62} ELSE {0}

(***************************************************************************)
(* State.                                                                  *)
(***************************************************************************)
Init ==
    /\ central = [real_board_conn |-> NULL, connected |-> FALSE,
                  subscribed |-> FALSE, tx_handle |-> 0, tx_ccc_handle |-> 0,
                  rx_handle |-> 0, target_name_filter |-> <<>>]
    /\ peripheral = [app_conn |-> NULL, connected |-> FALSE,
                     tx_notifications_enabled |-> FALSE, tx_value |-> <<>>,
                     config_value |-> [i \in 1..CONFIG_VALUE_SIZE |-> 0]]
    /\ radio = [scanning |-> FALSE, advertising |-> FALSE, bl |-> "idle",
                al |-> "idle", tbl |-> 0, disc |-> 0, sub |-> "none"]
    /\ usb_ready = FALSE
    /\ phase = "boot"
    /\ ev = Event("none", NULL, <<>>, 0, 0, "")
    /\ fx = <<>>
    /\ hist = [on |-> FALSE, fromApp |-> <<>>, toBoard |-> <<>>,
               fromBoard |-> <<>>, toApp |-> <<>>,
               keepLast |-> FALSE, lastToApp |-> <<>>]
    /\ env \in {FullEnv,
                [RelayEnv EXCEPT !.start = {"OK", "EIO"}, !.dev = BOOLEAN,
                                 !.led = {"OK", "NOT_READY", "EIO"}]}
    /\ console = ConsoleIdle
    /\ main_vars = MainVars

InitHist ==
    /\ Init!1 /\ Init!2 /\ Init!3 /\ Init!4 /\ Init!5 /\ Init!6 /\ Init!7
    /\ hist = [on |-> TRUE, fromApp |-> <<>>, toBoard |-> <<>>,
               fromBoard |-> <<>>, toApp |-> <<>>,
               keepLast |-> FALSE, lastToApp |-> <<>>]
    /\ env = RelayEnv
    /\ Init!10 /\ Init!11

\* the attribute table in use: configuration writes, reads of the
\* configuration and the data-out characteristics
InitGatt ==
    /\ Init!1 /\ Init!2 /\ Init!3 /\ Init!4 /\ Init!5 /\ Init!6 /\ Init!7
    /\ hist = [on |-> FALSE, fromApp |-> <<>>, toBoard |-> <<>>,
               fromBoard |-> <<>>, toApp |-> <<>>,
               keepLast |-> TRUE, lastToApp |-> <<>>]
    /\ env = GattEnv
    /\ Init!10 /\ Init!11

(***************************************************************************)
(* Actions: startup, then one action per event of the radio stack.  An     *)
(* event runs the callbacks of both modules where the stack calls both:    *)
(* connection events go to every registered bt_conn_cb, those registered   *)
(* with bt_conn_cb_register (ble_peripheral.c) before those defined with   *)
(* BT_CONN_CB_DEFINE (ble_central.c).                                      *)
(***************************************************************************)
\* the radio stack delivers events: from the start of the advertiser on
\* (main is on its way to its loop), while main loops ("run"), and after
\* main has returned ("exited": the threads of the stack go on).
\* "halted": the system has stopped on a fatal error.
Running ==
    \/ phase \in {"run", "exited"}
    \/ phase \in MainTail /\ env.early /\ ev.early < MaxEarlyEvents

After(halt) == IF halt THEN "halted" ELSE phase

\* main from its start to the start of the advertiser
Startup ==
    /\ phase = "boot"
    /\ \E led \in env.led, dev_ready \in env.dev,
          bt_err, adv_err \in StartErrs(env) :
         LET m == main_init(radio, led, dev_ready, bt_err, adv_err)
         IN /\ radio' = m.r
            /\ usb_ready' = m.usb
            /\ phase' = IF m.go THEN "main_adv_log" ELSE "exited"
            /\ main_vars' = [main_vars EXCEPT !.err = m.ret]
            /\ ev' = Event("main", NULL, <<>>, 0, 0, m.ret)
            /\ fx' = m.fx
    /\ UNCHANGED <<central, peripheral, hist, env, console>>

\* main runs its next statement on the way to its loop, or to its return;
\* bt_le_scan_start returns EALREADY to it when a callback has started the
\* scan before
MainStep ==
    /\ phase \in MainTail
    /\ \E serr \in (IF phase = "main_scan"
                    THEN {x \in bt_le_scan_start_results(radio) :
                            x = "EALREADY" \/ x \in StartErrs(env)}
                    ELSE {"OK"}) :
         LET m == main_step(phase, central, radio, usb_ready, main_vars, serr)
         IN /\ central' = m.c
            /\ radio' = m.r
            /\ phase' = m.pc
            /\ main_vars' = m.loc
            /\ ev' = [Event(phase, NULL, <<>>, 0, 0,
                            IF m.pc \in MainTail THEN "" ELSE m.loc.err)
                        EXCEPT !.early = IF m.pc \in MainTail THEN ev.early
                                         ELSE 0]
            /\ fx' = m.fx
    /\ UNCHANGED <<peripheral, usb_ready, hist, env, console>>

\* an advertising report reaches scan_callback
ScanReport ==
    /\ Running
    /\ radio.scanning
    /\ \E ad \in env.ads \ (IF radio.bl = "up" THEN BoardAds ELSE {}),
          cerr \in Within(env, bt_conn_le_create_results(radio)) :
         \E serr \in (IF IsMillennium(ad) /\ cerr # "OK"
                      THEN Within(env, bt_le_scan_start_results(
                                           [radio EXCEPT !.scanning = FALSE]))
                      ELSE {"OK"}) :
         LET o == scan_callback(central, radio, usb_ready, ad, cerr, serr)
         IN /\ central' = o.c
            /\ radio' = o.r
            /\ ev' = Event("scan_callback", NULL, <<>>, 0, 0,
                           IF IsMillennium(ad) THEN cerr ELSE "ignored")
            /\ fx' = o.fx
    /\ UNCHANGED <<peripheral, usb_ready, phase, hist, env, console, main_vars>>

\* the connection the firmware initiated is established (err = 0) or fails
BoardConnected ==
    /\ Running
    /\ radio.bl = "connecting"
    /\ \E err \in ConnErrs(env), t \in env.tables :
         LET r1 == IF err = 0
                   THEN [radio EXCEPT !.bl = "up", !.tbl = t]
                   ELSE [radio EXCEPT !.bl = "idle"]
         IN \E derr \in (IF err = 0
                         THEN Within(env, bt_gatt_discover_results(r1,
                                              central.real_board_conn))
                         ELSE {"OK"}) :
              LET q == peripheral_connected(peripheral, usb_ready, BOARD_CONN,
                                            BT_CONN_ROLE_CENTRAL, err)
                  o == connected_callback(central, r1, usb_ready, BOARD_CONN,
                                          err, derr)
              IN /\ (err # 0 => \A u \in env.tables : t <= u)
                 /\ peripheral' = q.p
                 /\ central' = o.c
                 /\ radio' = o.r
                 /\ phase' = After(o.halt)
                 /\ ev' = Event("board_connected", BOARD_CONN, <<>>, 0, err, "")
                 /\ fx' = q.fx \o o.fx
    /\ UNCHANGED <<usb_ready, hist, env, console, main_vars>>

\* the running discovery reports its next attribute, or its end
DiscoverStep ==
    /\ Running
    /\ radio.bl = "up"
    /\ radio.disc > 0
    /\ LET T == Tables[radio.tbl]
           last == radio.disc > Len(T)
           attr == IF last THEN NoAttr ELSE T[radio.disc]
           r1 == [radio EXCEPT !.disc = IF last THEN 0 ELSE radio.disc + 1]
       IN \E serr \in (IF last /\ central.tx_handle # 0 /\ central.tx_ccc_handle # 0
                       THEN Within(env, bt_gatt_subscribe_results(r1,
                                            central.real_board_conn))
                       ELSE {"OK"}) :
            LET o == discover_callback(central, r1, usb_ready, attr, serr)
            IN /\ central' = o.c
               /\ radio' = o.r
               /\ phase' = After(o.halt)
               /\ ev' = Event("discover_callback", BOARD_CONN, <<>>,
                              attr.handle, 0, attr.uuid)
               /\ fx' = o.fx
    /\ UNCHANGED <<peripheral, usb_ready, hist, env, console, main_vars>>

\* the board acknowledges the subscription request: no callback is
\* registered for it (subscribe_params.subscribe is not set)
SubscribeAck ==
    /\ Running
    /\ radio.bl = "up"
    /\ radio.sub = "pending"
    /\ radio' = [radio EXCEPT !.sub = "active"]
    /\ ev' = Event("subscribe_ack", BOARD_CONN, <<>>, 0, 0, "")
    /\ fx' = <<>>
    /\ UNCHANGED <<central, peripheral, usb_ready, phase, hist, env, console, main_vars>>

\* the subscription is rejected or ends: notify_callback with NULL data
SubscriptionEnded ==
    /\ Running
    /\ radio.bl = "up"
    /\ radio.sub # "none"
    /\ LET o == notify_callback(central, peripheral, usb_ready, FALSE, <<>>, "OK")
       IN /\ central' = o.c
          /\ peripheral' = o.p
          /\ fx' = o.fx
    /\ radio' = [radio EXCEPT !.sub = "none"]
    /\ ev' = Event("notify_null", BOARD_CONN, <<>>, 0, 0, "")
    /\ UNCHANGED <<usb_ready, phase, hist, env, console, main_vars>>

\* the board notifies a frame
BoardNotify ==
    /\ Running
    /\ radio.bl = "up"
    /\ radio.sub = "active"
    /\ \E data \in env.board,
          nerr \in (IF ble_peripheral_is_connected(peripheral)
                    THEN Within(env, bt_gatt_notify_results(radio))
                    ELSE {"OK"}) :
         LET o == notify_callback(central, peripheral, usb_ready, TRUE, data, nerr)
             rec == hist.on /\ Recorded(hist) < MaxFrames
             sent == Delivered(o.fx, "bt_gatt_notify")
             h1 == [hist EXCEPT !.lastToApp =
                        IF hist.keepLast /\ Len(sent) > 0
                        THEN sent[Len(sent)] ELSE @]
         IN /\ central' = o.c
            /\ peripheral' = o.p
            /\ fx' = o.fx
            /\ ev' = Event("notify_callback", BOARD_CONN, data, 0, 0, "")
            /\ hist' = IF rec
                       THEN [h1 EXCEPT
                               !.fromBoard = Append(@, data),
                               !.toApp = @ \o sent]
                       ELSE h1
    /\ UNCHANGED <<radio, usb_ready, phase, env, console, main_vars>>

\* the board's link goes down (either side ended it, or it timed out): the
\* stack ends the subscription, then calls the disconnected callbacks
BoardDisconnected ==
    /\ Running
    /\ radio.bl = "up"
    /\ \E reason \in env.reasons :
         LET r1 == [radio EXCEPT !.bl = "idle", !.tbl = 0, !.disc = 0,
                                 !.sub = "none"]
             n == IF radio.sub # "none"
                  THEN notify_callback(central, peripheral, usb_ready, FALSE,
                                       <<>>, "OK")
                  ELSE [c |-> central, p |-> peripheral, fx |-> <<>>]
         IN \E aerr \in (IF n.p.app_conn = BOARD_CONN
                         THEN Within(env, bt_le_adv_start_results(r1))
                         ELSE {"OK"}) :
            LET q == peripheral_disconnected(n.p, r1, usb_ready, BOARD_CONN,
                                             reason, aerr)
            IN \E serr \in Within(env, bt_le_scan_start_results(q.r)) :
               LET o == disconnected_callback(n.c, q.r, usb_ready, BOARD_CONN,
                                              reason, serr)
               IN /\ peripheral' = q.p
                  /\ central' = o.c
                  /\ radio' = o.r
                  /\ ev' = Event("board_disconnected", BOARD_CONN, <<>>, 0,
                                 reason, "")
                  /\ fx' = n.fx \o q.fx \o o.fx
    /\ UNCHANGED <<usb_ready, phase, hist, env, console, main_vars>>

\* the app connects to the advertiser, which stops on the connection; the
\* connection is established (err = 0) or fails, the advertiser staying off
AppConnected ==
    /\ Running
    /\ radio.advertising
    /\ radio.al = "idle"
    /\ \E err \in ConnErrs(env) :
         LET r1 == IF err = 0
                   THEN [radio EXCEPT !.al = "up", !.advertising = FALSE]
                   ELSE [radio EXCEPT !.advertising = FALSE]
         IN \E derr \in (IF err = 0
                         THEN bt_gatt_discover_results(r1,
                                  central.real_board_conn)
                         ELSE {"OK"}) :
              LET q == peripheral_connected(peripheral, usb_ready, APP_CONN,
                                            BT_CONN_ROLE_PERIPHERAL, err)
                  o == connected_callback(central, r1, usb_ready, APP_CONN,
                                          err, derr)
              IN /\ peripheral' = q.p
                 /\ central' = o.c
                 /\ radio' = o.r
                 /\ phase' = After(o.halt)
                 /\ ev' = Event("app_connected", APP_CONN, <<>>, 0, err, "")
                 /\ fx' = q.fx \o o.fx
    /\ UNCHANGED <<usb_ready, hist, env, console, main_vars>>

AppDisconnected ==
    /\ Running
    /\ radio.al = "up"
    /\ \E reason \in env.reasons :
         LET r1 == [radio EXCEPT !.al = "idle"]
         IN \E aerr \in (IF peripheral.app_conn = APP_CONN
                         THEN Within(env, bt_le_adv_start_results(r1))
                         ELSE {"OK"}) :
            LET q == peripheral_disconnected(peripheral, r1, usb_ready,
                                             APP_CONN, reason, aerr)
            IN \E serr \in Within(env, bt_le_scan_start_results(q.r)) :
               LET o == disconnected_callback(central, q.r, usb_ready,
                                              APP_CONN, reason, serr)
               IN /\ peripheral' = q.p
                  /\ central' = o.c
                  /\ radio' = o.r
                  /\ ev' = Event("app_disconnected", APP_CONN, <<>>, 0,
                                 reason, "")
                  /\ fx' = q.fx \o o.fx
    /\ UNCHANGED <<usb_ready, phase, hist, env, console, main_vars>>

\* the app writes the CCC descriptor of the TX characteristic
AppWritesCcc ==
    /\ Running
    /\ radio.al = "up"
    /\ \E value \in env.ccc :
         LET o == tx_ccc_changed(peripheral, usb_ready, value)
         IN /\ peripheral' = o.p
            /\ fx' = o.fx
            /\ ev' = Event("tx_ccc_changed", APP_CONN, <<>>, 0, value, "")
    /\ UNCHANGED <<central, radio, usb_ready, phase, hist, env, console, main_vars>>

\* the app writes the RX characteristic
AppWritesRx ==
    /\ Running
    /\ radio.al = "up"
    /\ \E buf \in env.app, offset \in env.offsets,
          werr \in (IF ble_central_is_connected(central)
                       /\ central.real_board_conn # NULL /\ central.rx_handle # 0
                    THEN Within(env, bt_gatt_write_results(radio))
                    ELSE {"OK"}) :
         LET o == rx_write_callback(central, radio, usb_ready, buf, offset, werr)
             rec == hist.on /\ Recorded(hist) < MaxFrames /\ offset = 0
                    /\ Len(buf) > 0
         IN /\ fx' = o.fx
            /\ ev' = Event("rx_write_callback", APP_CONN, buf, offset, o.ret, "")
            /\ hist' = IF rec
                       THEN [hist EXCEPT
                               !.fromApp = Append(@, buf),
                               !.toBoard = @ \o Delivered(o.fx,
                                              "bt_gatt_write_without_response")]
                       ELSE hist
    /\ UNCHANGED <<central, peripheral, radio, usb_ready, phase, env, console, main_vars>>

\* the app writes the configuration characteristic
AppWritesConfig ==
    /\ Running
    /\ radio.al = "up"
    /\ \E buf \in env.config, offset \in env.offsets :
         LET o == config_write_callback(peripheral, buf, offset)
         IN /\ peripheral' = o.p
            /\ ev' = Event("config_write_callback", APP_CONN, buf, offset,
                           o.ret, "")
            /\ fx' = <<>>
    /\ UNCHANGED <<central, radio, usb_ready, phase, hist, env, console, main_vars>>

\* the app reads the configuration characteristic; the record of the read
\* keeps the room in the reader's buffer (h) and the bytes returned
AppReadsConfig ==
    /\ Running
    /\ radio.al = "up"
    /\ \E len \in env.readlens, offset \in env.offsets :
         LET o == config_read_callback(peripheral, len, offset)
         IN /\ ev' = Event("config_read_callback", APP_CONN, o.data, offset,
                           o.ret, "")
            /\ fx' = <<Call("bt_gatt_attr_read", APP_CONN, len, o.data,
                            NoMsg, o.ret >= 0)>>
    /\ UNCHANGED <<central, peripheral, radio, usb_ready, phase, hist, env, console, main_vars>>

\* the app reads the data-out (TX) characteristic
AppReadsTx ==
    /\ Running
    /\ radio.al = "up"
    /\ \E len \in env.readlens, offset \in env.offsets :
         LET o == tx_read_callback(peripheral, len, offset)
         IN /\ ev' = Event("tx_read_callback", APP_CONN, o.data, offset,
                           o.ret, "")
            /\ fx' = <<Call("bt_gatt_attr_read", APP_CONN, len, o.data,
                            NoMsg, o.ret >= 0)>>
    /\ UNCHANGED <<central, peripheral, radio, usb_ready, phase, hist, env, console, main_vars>>

(***************************************************************************)
(* The checksum functions on their own: a byte sequence is drawn, may be   *)
(* given its checksum byte, may then have one bit flipped, and is          *)
(* validated.  ev.data is the sequence, ev.res how it was made, ev.ret the *)
(* result of protocol_validate_crc (1: true).                              *)
(***************************************************************************)
CrcBytes == {0, 1, 128, 129, 255}

RECURSIVE SeqsUpTo(_, _)
SeqsUpTo(S, n) ==
    IF n = 0 THEN {<<>>}
    ELSE LET shorter == SeqsUpTo(S, n - 1)
         IN shorter \cup {Append(q, x) : q \in shorter, x \in S}

Bit(x, k) == (x \div (2 ^ k)) % 2

FlipBit(x, k) == IF Bit(x, k) = 1 THEN x - (2 ^ k) ELSE x + (2 ^ k)

InitCrc ==
    /\ Init!1 /\ Init!2 /\ Init!3 /\ Init!4
    /\ phase = "unit"
    /\ \E b \in SeqsUpTo(CrcBytes, MaxCrcLen) :
         ev = Event("bytes", NULL, b, 0, 0, "input")
    /\ Init!7 /\ Init!8 /\ env = FullEnv /\ Init!10 /\ Init!11

\* b becomes b ++ [millennium_crc(b)]
AppendCrc ==
    /\ phase = "unit"
    /\ ev.name = "bytes" /\ ev.res = "input"
    /\ LET c == millennium_crc(ev.data, Len(ev.data))
       IN ev' = Event("bytes", NULL, Append(ev.data, c), 0, c, "framed")
    /\ UNCHANGED <<central, peripheral, radio, usb_ready, phase, fx, hist, env, console, main_vars>>

\* one bit of one byte of a framed sequence is flipped
FlipOneBit ==
    /\ phase = "unit"
    /\ ev.name = "bytes" /\ ev.res = "framed"
    /\ \E i \in 1..Len(ev.data), k \in 0..7 :
         ev' = Event("bytes", NULL,
                     [ev.data EXCEPT ![i] = FlipBit(@, k)], i, k, "flipped")
    /\ UNCHANGED <<central, peripheral, radio, usb_ready, phase, fx, hist, env, console, main_vars>>

ValidateCrc ==
    /\ phase = "unit"
    /\ ev.name = "bytes"
    /\ ev' = Event("protocol_validate_crc", NULL, ev.data, ev.off,
                   IF protocol_validate_crc(ev.data) THEN 1 ELSE 0, ev.res)
    /\ UNCHANGED <<central, peripheral, radio, usb_ready, phase, fx, hist, env, console, main_vars>>

NextCrc ==
    \/ AppendCrc
    \/ FlipOneBit
    \/ ValidateCrc

SpecCrc == InitCrc /\ [][NextCrc]_vars

(***************************************************************************)
(* The decoder on its own: a frame is drawn and protocol_decode_and_log is *)
(* called with it, in either direction, the console ready or not.  ev.data *)
(* is the frame, ev.res the direction, fx the calls the decoder made.      *)
(***************************************************************************)
\* byte i of a board-state frame: a different character for each square,
\* the parity bit set on every other one
SquareByte(i) == 32 + (i % 90) + (IF i % 2 = 0 THEN 128 ELSE 0)

\* a frame of n bytes that starts with first
FrameOf(first, n) == [i \in 1..n |-> IF i = 1 THEN first ELSE SquareByte(i)]

\* board-state responses: short, one byte short, exact, one byte and many
\* bytes too long; with and without the parity bit on the first byte; and
\* exact ones with a square that is 0 once bit 7 is cleared
BoardStateFrames ==
    { FrameOf(first, n) : first \in {115, 243}, n \in {2, 65, 66, 67, 100} }
    \cup { [FrameOf(115, 66) EXCEPT ![z] = 128] : z \in {2, 12, 65} }

\* LED commands: cut short, and complete for every value of the square byte
LedFrames ==
    { <<76>>, <<204, 138>> }
    \cup { <<76, sq, 49>> : sq \in 0..255 }
    \cup { <<204, sq, 177, 76>> : sq \in {10, 138, 9, 72, 80, 127} }

\* every one-byte frame, the other known commands, an unknown command, CR
\* and LF, and frames longer than the decoder's text buffer can show
OtherFrames ==
    { <<b>> : b \in 0..255 }
    \cup { <<118, 118>>, <<118, 49, 174, 48, 118>>, <<118, 49, 128, 48, 118>>,
           <<118, 0, 49, 118>>, <<76, 10, 128>>, <<214, 214>>, <<83, 83>>,
           <<114, 114>>, <<90, 1, 65>>, <<13, 10>>, <<10, 1>>, <<1, 2, 3>> }
    \cup { FrameOf(1, 100), FrameOf(90, TX_VALUE_SIZE), FrameOf(118, 100) }

DecodeFrames == {<<>>} \cup BoardStateFrames \cup LedFrames \cup OtherFrames

InitDecode ==
    /\ Init!1 /\ Init!2 /\ Init!3
    /\ usb_ready \in BOOLEAN
    /\ phase = "decode"
    /\ \E data \in DecodeFrames : ev = Event("frame", NULL, data, 0, 0, "input")
    /\ Init!7 /\ Init!8 /\ env = FullEnv /\ Init!10 /\ Init!11

DecodeAndLog ==
    /\ phase = "decode"
    /\ ev.name = "frame"
    /\ \E dir \in {DIR_APP_TO_BOARD, DIR_BOARD_TO_APP} :
         /\ fx' = protocol_decode_and_log(usb_ready, dir, ev.data)
         /\ ev' = Event("protocol_decode_and_log", NULL, ev.data, 0, 0, dir)
    /\ UNCHANGED <<central, peripheral, radio, usb_ready, phase, hist, env, console, main_vars>>

SpecDecode == InitDecode /\ [][DecodeAndLog]_vars

(***************************************************************************)
(* The scan filter on its own: the firmware has started and scans with the *)
(* name given by main; an advertisement is drawn and reported to           *)
(* scan_callback.  ev.data is the advertised name, ev.res the type of the  *)
(* name's structure, ev.off which 128-bit service UUID the advertisement   *)
(* carries (0: none, 1: the proxied service in a complete list, 2: in an   *)
(* incomplete list, 3: another service); after the callback ev.ret is 1 if *)
(* a connect request was made.                                             *)
(***************************************************************************)
AdvertisedNames ==
    { \* "MILLENNIUM CHESS"
      <<77, 73, 76, 76, 69, 78, 78, 73, 85, 77, 32, 67, 72, 69, 83, 83>>,
      <<77, 73, 76, 76, 69, 78, 78, 73, 85, 77>>,  \* "MILLENNIUM"
      \* "millennium chess"
      <<109, 105, 108, 108, 101, 110, 110, 105, 117, 109, 32, 99, 104, 101,
      115, 115>>,
      <<77, 105, 76, 108, 69, 110, 78, 105, 85, 109>>,  \* "MiLlEnNiUm"
      \* "My Millennium"
      <<77, 121, 32, 77, 105, 108, 108, 101, 110, 110, 105, 117, 109>>,
      <<88, 77, 73, 76, 76, 69, 78, 78, 73, 85, 77>>,  \* "XMILLENNIUM"
      <<77, 73, 76, 76, 69, 78, 78, 73, 85>>,  \* "MILLENNIU"
      <<77, 73, 76, 76, 69, 78, 78, 73, 85, 88>>,  \* "MILLENNIUX"
      <<67, 72, 69, 83, 83>>,  \* "CHESS"
      \* "Millennium ChessLink"
      <<77, 105, 108, 108, 101, 110, 110, 105, 117, 109, 32, 67, 104, 101,
      115, 115, 76, 105, 110, 107>>,
      <<68, 71, 84, 32, 67, 101, 110, 116, 97, 117, 114>>,  \* "DGT Centaur"
      <<>> }  \* no name

\* a 128-bit UUID that is not the proxied service's
OTHER_SERVICE_UUID == [MILLENNIUM_SERVICE_UUID EXCEPT ![1] = 86]

\* the advertisement: flags, the UUID list if any, the name if any
AdOf(name, ntype, uuidkind) ==
    <<[type |-> "FLAGS", data |-> <<6>>]>>
    \o (CASE uuidkind = 1 ->
               <<[type |-> "UUID128_ALL", data |-> MILLENNIUM_SERVICE_UUID]>>
          [] uuidkind = 2 ->
               <<[type |-> "UUID128_SOME", data |-> MILLENNIUM_SERVICE_UUID]>>
          [] uuidkind = 3 ->
               <<[type |-> "UUID128_ALL", data |-> OTHER_SERVICE_UUID]>>
          [] OTHER -> <<>>)
    \o (IF Len(name) > 0 THEN <<[type |-> ntype, data |-> name]>> ELSE <<>>)

\* the state main leaves when every start succeeds
Started ==
    main([real_board_conn |-> NULL, connected |-> FALSE, subscribed |-> FALSE,
          tx_handle |-> 0, tx_ccc_handle |-> 0, rx_handle |-> 0,
          target_name_filter |-> <<>>],
         [scanning |-> FALSE, advertising |-> FALSE, bl |-> "idle",
          al |-> "idle", tbl |-> 0, disc |-> 0, sub |-> "none"],
         "OK", TRUE, "OK", "OK", "OK")

InitScan ==
    /\ central = Started.c
    /\ Init!2
    /\ radio = Started.r
    /\ usb_ready = Started.usb
    /\ phase = "scan"
    /\ \E name \in AdvertisedNames,
          ntype \in {"NAME_COMPLETE", "NAME_SHORTENED"}, uuidkind \in 0..3 :
         ev = Event("advertisement", NULL, name, uuidkind, 0, ntype)
    /\ Init!7 /\ Init!8 /\ env = FullEnv /\ Init!10 /\ Init!11

ReportAdvertisement ==
    /\ phase = "scan"
    /\ ev.name = "advertisement"
    /\ \E cerr \in bt_conn_le_create_results(radio),
          serr \in bt_le_scan_start_results([radio EXCEPT !.scanning = FALSE]) :
         LET ad == AdOf(ev.data, ev.res, ev.off)
             o == scan_callback(central, radio, usb_ready, ad, cerr, serr)
         IN /\ central' = o.c
            /\ radio' = o.r
            /\ fx' = o.fx
            /\ ev' = Event("scan_callback_done", NULL, ev.data, ev.off,
                           Len(SelectSeq(o.fx, LAMBDA e :
                                            e.k = "bt_conn_le_create")),
                           ev.res)
    /\ UNCHANGED <<peripheral, usb_ready, phase, hist, env, console, main_vars>>

SpecScan == InitScan /\ [][ReportAdvertisement]_vars

(***************************************************************************)
(* The sink under two threads, from the return of usb_console_init on: the *)
(* threads make up to MaxSinkCalls calls of the sink functions between     *)
(* them, one statement at a time.                                          *)
(***************************************************************************)
InitSink ==
    /\ Init!1 /\ Init!2 /\ Init!3
    /\ usb_ready \in BOOLEAN
    /\ phase = "sink"
    /\ Init!6 /\ Init!7 /\ Init!8 /\ env = FullEnv
    /\ LET ids == UsbInitCalls(usb_ready)
       IN console = [ConsoleIdle EXCEPT
                       !.acquired = ids,
                       !.uart = RecordsOf(ids),
                       !.output_buf = IF ids = <<>> THEN <<>>
                                      ELSE FormatHead(ids[Len(ids)]),
                       !.thread[MAIN_THREAD].calls = Len(ids)]
    /\ Init!11

SinkStep(t, th, con) ==
    /\ console' = [con EXCEPT !.thread[t] = th]
    /\ UNCHANGED <<central, peripheral, radio, usb_ready, phase, ev, fx,
                   hist, env, main_vars>>

\* calls made so far with a frame longer than TrafficLen
LongCalls ==
    Cardinality({j \in 1..Len(console.acquired) :
                   console.acquired[j].len > TrafficLen})
    + Cardinality({t \in Threads :
                     /\ console.thread[t].pc \in {"entry", "lock"}
                     /\ console.thread[t].len > TrafficLen})

\* a thread calls a sink function
SinkCall ==
    /\ phase = "sink"
    /\ \E t \in Threads :
         LET th == console.thread[t] IN
         /\ th.pc = "idle"
         /\ console.thread[MAIN_THREAD].calls
              + console.thread[BT_RX_THREAD].calls
              < MaxSinkCalls + Len(UsbInitCalls(usb_ready))
         /\ \E fn \in SinkCallsOf(t) :
              \E len \in (IF fn = "usb_console_log_traffic"
                          THEN {0, TrafficLen}
                               \cup (IF LongCalls < MaxLongCalls
                                     THEN {Len(LongFrame)} ELSE {})
                          ELSE {0}) :
                SinkStep(t, [th EXCEPT !.pc = "entry", !.fn = fn,
                                       !.len = len, !.calls = th.calls + 1,
                                       !.i = 0, !.n = 0, !.pos = 0],
                         console)

\* if (!usb_ready) return;  (log_traffic: if (!usb_ready || len == 0))
SinkEntry ==
    \E t \in Threads :
      LET th == console.thread[t] IN
      /\ th.pc = "entry"
      /\ IF ~usb_ready \/ (th.fn = "usb_console_log_traffic" /\ th.len = 0)
         THEN SinkStep(t, [th EXCEPT !.pc = "idle"], console)
         ELSE SinkStep(t, [th EXCEPT !.pc = "lock"], console)

\* k_mutex_lock(&output_mutex, K_FOREVER);
SinkLock ==
    \E t \in Threads :
      LET th == console.thread[t]
          l == k_mutex_lock(console.output_mutex, t)
      IN  /\ th.pc = "lock"
          /\ l.go
          /\ SinkStep(t, [th EXCEPT !.pc = "format"],
                      [console EXCEPT
                         !.output_mutex = l.owner,
                         !.acquired = Append(@, CallId(th, t))])

\* get_timestamp and the first snprintf (vsnprintf) into output_buf
SinkFormat ==
    \E t \in Threads :
      LET th == console.thread[t] IN
      /\ th.pc = "format"
      /\ SinkStep(t, [th EXCEPT !.pc = IF th.fn = "usb_console_log_traffic"
                                       THEN "hex" ELSE "write",
                                !.i = 0,
                                !.pos = IF th.fn = "usb_console_log_traffic"
                                        THEN TRAFFIC_HEAD_LEN ELSE 0],
                  [console EXCEPT !.output_buf = FormatHead(CallId(th, t))])

\* usb_console_log_traffic: one round of the loop that appends " %02x"
SinkHex ==
    \E t \in Threads :
      LET th == console.thread[t] IN
      /\ th.pc = "hex"
      /\ IF th.i < th.len /\ th.pos < OUTPUT_BUF_SIZE - 4
         THEN SinkStep(t, [th EXCEPT !.i = th.i + 1, !.pos = th.pos + 3],
                       [console EXCEPT !.output_buf =
                          Append(@, Piece(CallId(th, t), "hex", th.i + 1))])
         ELSE SinkStep(t, [th EXCEPT !.pc = "newline"], console)

\* usb_console_log_traffic: "\r\n" and the terminator, if there is room
SinkNewline ==
    \E t \in Threads :
      LET th == console.thread[t] IN
      /\ th.pc = "newline"
      /\ IF th.pos < OUTPUT_BUF_SIZE - 2
         THEN SinkStep(t, [th EXCEPT !.pc = "write", !.pos = th.pos + 2],
                       [console EXCEPT !.output_buf =
                          Append(@, Piece(CallId(th, t), "crlf", 0))])
         ELSE SinkStep(t, [th EXCEPT !.pc = "write"], console)

\* cdc_write_string(output_buf): the check of usb_ready and strlen(str)
SinkWrite ==
    \E t \in Threads :
      LET th == console.thread[t] IN
      /\ th.pc = "write"
      /\ IF ~usb_ready
         THEN SinkStep(t, [th EXCEPT !.pc = "unlock"], console)
         ELSE SinkStep(t, [th EXCEPT !.pc = "out", !.i = 0,
                                     !.n = Len(console.output_buf)],
                       console)

\* cdc_write_string: one round of the loop, uart_poll_out(cdc_dev, str[i])
SinkPollOut ==
    \E t \in Threads :
      LET th == console.thread[t] IN
      /\ th.pc = "out"
      /\ IF th.i < th.n
         THEN SinkStep(t, [th EXCEPT !.i = th.i + 1],
                       [console EXCEPT !.uart =
                          Append(@, BufferAt(console.output_buf, th.i))])
         ELSE SinkStep(t, [th EXCEPT !.pc = "unlock"], console)

\* k_mutex_unlock(&output_mutex); and the return
SinkUnlock ==
    \E t \in Threads :
      LET th == console.thread[t] IN
      /\ th.pc = "unlock"
      /\ SinkStep(t, [th EXCEPT !.pc = "idle"],
                  [console EXCEPT !.output_mutex =
                     k_mutex_unlock(@, t)])

NextSink ==
    \/ SinkCall
    \/ SinkEntry
    \/ SinkLock
    \/ SinkFormat
    \/ SinkHex
    \/ SinkNewline
    \/ SinkWrite
    \/ SinkPollOut
    \/ SinkUnlock

SpecSink == InitSink /\ [][NextSink]_vars

Next ==
    \/ Startup
    \/ MainStep
    \/ ScanReport
    \/ BoardConnected
    \/ DiscoverStep
    \/ SubscribeAck
    \/ SubscriptionEnded
    \/ BoardNotify
    \/ BoardDisconnected
    \/ AppConnected
    \/ AppDisconnected
    \/ AppWritesCcc
    \/ AppWritesRx

Spec == Init /\ [][Next]_vars

\* The link modules also offer ble_central_stop_scan, ble_central_disconnect,
\* ble_peripheral_stop_advertising and ble_peripheral_disconnect.  Nothing
\* in the firmware calls them, so they are no part of Next; these are their
\* calls by a caller added to the main loop.
CallCentralStopScan ==
    /\ phase = "run"
    /\ LET o == ble_central_stop_scan(radio)
       IN /\ radio' = o.r
          /\ ev' = Event("ble_central_stop_scan", NULL, <<>>, 0, 0, o.ret)
          /\ fx' = o.fx
    /\ UNCHANGED <<central, peripheral, usb_ready, phase, hist, env, console, main_vars>>

CallPeripheralStopAdvertising ==
    /\ phase = "run"
    /\ LET o == ble_peripheral_stop_advertising(radio)
       IN /\ radio' = o.r
          /\ ev' = Event("ble_peripheral_stop_advertising", NULL, <<>>, 0, 0,
                         o.ret)
          /\ fx' = o.fx
    /\ UNCHANGED <<central, peripheral, usb_ready, phase, hist, env, console, main_vars>>

\* the disconnected event follows as BoardDisconnected
CallCentralDisconnect ==
    /\ phase = "run"
    /\ LET o == ble_central_disconnect(central, radio)
       IN /\ ev' = Event("ble_central_disconnect", central.real_board_conn,
                         <<>>, 0, 0, o.ret)
          /\ fx' = o.fx
    /\ UNCHANGED <<central, peripheral, radio, usb_ready, phase, hist, env, console, main_vars>>

\* the disconnected event follows as AppDisconnected
CallPeripheralDisconnect ==
    /\ phase = "run"
    /\ LET o == ble_peripheral_disconnect(peripheral, radio)
       IN /\ ev' = Event("ble_peripheral_disconnect", peripheral.app_conn,
                         <<>>, 0, 0, o.ret)
          /\ fx' = o.fx
    /\ UNCHANGED <<central, peripheral, radio, usb_ready, phase, hist, env, console, main_vars>>

SpecApi ==
    Init /\ [][\/ Next
               \/ CallCentralStopScan
               \/ CallPeripheralStopAdvertising
               \/ CallCentralDisconnect
               \/ CallPeripheralDisconnect]_vars

SpecHist == InitHist /\ [][Next]_vars

\* the events of Next and the accesses to the attribute table
NextGatt ==
    \/ Next
    \/ AppWritesConfig
    \/ AppReadsConfig
    \/ AppReadsTx

SpecGatt == InitGatt /\ [][NextGatt]_vars

\* the radio delivers what is pending: a connection attempt completes, a
\* discovery continues, a pending subscription request is answered (accepted
\* or rejected), and a scanning radio hears the board while it advertises
FairSpec ==
    /\ Init /\ [][Next]_vars
    /\ WF_vars(MainStep)
    /\ WF_vars(ScanReport)
    /\ WF_vars(BoardConnected)
    /\ WF_vars(DiscoverStep)
    /\ WF_vars(SubscribeAck \/ (radio.sub = "pending" /\ SubscriptionEnded))

(***************************************************************************)
(* Properties.                                                             *)
(***************************************************************************)
Count(calls, k) == Len(SelectSeq(calls, LAMBDA e : e.k = k))

CountText(calls, k, text) ==
    Len(SelectSeq(calls, LAMBDA e : e.k = k /\ e.s = text))

\* the step is a write of a non-empty frame by the app at offset 0
AppFrameStep == ev'.name = "rx_write_callback" /\ ev'.off = 0 /\ Len(ev'.data) > 0

AppFrameDone == ev.name = "rx_write_callback" /\ ev.off = 0 /\ Len(ev.data) > 0

\* the step is a board notification with a payload (a non-NULL pointer)
BoardFrameStep == ev'.name = "notify_callback"

BoardFrameDone == ev.name = "notify_callback"

WritesToBoard(calls) == Count(calls, "bt_gatt_write_without_response")

NotifiesToApp(calls) == Count(calls, "bt_gatt_notify")

\* C1 as claimed: a non-empty frame written by the app while the central
\* link is not Ready issues no write to the board and emits exactly one
\* "board not connected" status record to the traffic sink.
C1_DropEmitsStatusRecord ==
    [][(AppFrameStep /\ ~ble_central_is_connected(central)) =>
         /\ WritesToBoard(fx') = 0
         /\ Count(fx', "usb_console_log_status") = 1]_vars

\* C1, amended: a non-empty frame written by the app while the central
\* link is not Ready issues no write to the board and logs exactly one
\* "Board not connected, dropping app data" warning through LOG_WRN; no
\* status record goes to the traffic sink.
C1_DropLogsWarning ==
    [][(AppFrameStep /\ ~ble_central_is_connected(central)) =>
         /\ WritesToBoard(fx') = 0
         /\ CountText(fx', "LOG_WRN", "Board not connected, dropping app data") = 1
         /\ Count(fx', "LOG_WRN") = 1
         /\ Count(fx', "usb_console_log_status") = 0]_vars

C1_Witness ==
    /\ AppFrameDone
    /\ central.connected /\ ~central.subscribed /\ central.rx_handle # 0
    /\ WritesToBoard(fx) = 0
    /\ CountText(fx, "LOG_WRN", "Board not connected, dropping app data") = 1

\* the calls of a Ready central link for an app frame: one write without
\* response to the RX handle with the frame's bytes, one decoded record
OneWriteOneDecoded(calls, c, data) ==
    /\ WritesToBoard(calls) = 1
    /\ \A i \in 1..Len(calls) :
         calls[i].k = "bt_gatt_write_without_response" =>
           /\ calls[i].d = data
           /\ calls[i].h = c.rx_handle
           /\ calls[i].h # 0
           /\ calls[i].s = BOARD_CONN
    /\ Count(calls, "usb_console_log_decoded") = 1

\* C2 as claimed: whenever the central link is Ready, a non-empty frame
\* written by the app at offset 0 gives exactly one write without response
\* to the board's data-in handle with the same bytes and one decoded record.
C2_ReadyForwardsOnce ==
    [][(AppFrameStep /\ ble_central_is_connected(central)) =>
         OneWriteOneDecoded(fx', central, ev'.data)]_vars

\* C2, amended: whenever the central link is Ready and its data-in (RX)
\* handle is resolved, a non-empty frame written by the app at offset 0
\* gives exactly one write without response to that handle with the same
\* bytes and one decoded record.
C2_ReadyWithRxForwardsOnce ==
    [][(AppFrameStep /\ ble_central_is_connected(central)
        /\ central.rx_handle # 0) =>
         OneWriteOneDecoded(fx', central, ev'.data)]_vars

C2_Witness ==
    /\ AppFrameDone
    /\ ev.data = <<214, 214>>
    /\ ble_central_is_connected(central)
    /\ OneWriteOneDecoded(fx, central, <<214, 214>>)
    /\ \E i \in 1..Len(fx) : fx[i].k = "usb_console_log_decoded"
                              /\ fx[i].m.t = "CMD: VERSION request"

\* C3 as claimed: a board notification with a non-null payload received
\* while the peripheral link is not Ready makes no notify call, emits one
\* decoded record and one "app not connected" status record to the sink.
C3_DropEmitsStatusRecord ==
    [][(BoardFrameStep /\ ~ble_peripheral_is_connected(peripheral)) =>
         /\ NotifiesToApp(fx') = 0
         /\ Count(fx', "usb_console_log_decoded") = 1
         /\ Count(fx', "usb_console_log_status") = 1]_vars

\* C3, amended: a board notification with a non-empty payload received
\* while the peripheral link is not Ready makes no notify call, emits one
\* decoded record, and logs exactly one "App not connected, dropping board
\* data" warning through LOG_WRN; no status record goes to the sink.
C3_DropLogsWarning ==
    [][(BoardFrameStep /\ Len(ev'.data) > 0
        /\ ~ble_peripheral_is_connected(peripheral)) =>
         /\ NotifiesToApp(fx') = 0
         /\ Count(fx', "usb_console_log_decoded") = 1
         /\ CountText(fx', "LOG_WRN", "App not connected, dropping board data") = 1
         /\ Count(fx', "LOG_WRN") = 1
         /\ Count(fx', "LOG_ERR") = 0
         /\ Count(fx', "usb_console_log_status") = 0]_vars

C3_Witness ==
    /\ BoardFrameDone
    /\ ev.data = BoardStateFrame
    /\ ~peripheral.tx_notifications_enabled
    /\ NotifiesToApp(fx) = 0
    /\ \E i \in 1..Len(fx) : fx[i].k = "usb_console_log_decoded"
                              /\ fx[i].m.t = "RESP: BOARD STATE"
    /\ CountText(fx, "LOG_WRN", "App not connected, dropping board data") = 1

\* C4: whenever the peripheral link is Ready, a board notification with a
\* non-null payload gives exactly one notify request towards the app, on
\* the app's connection, with the same bytes.
C4_ReadyNotifiesOnce ==
    [][(BoardFrameStep /\ ble_peripheral_is_connected(peripheral)) =>
         /\ NotifiesToApp(fx') = 1
         /\ \A i \in 1..Len(fx') :
              fx'[i].k = "bt_gatt_notify" =>
                fx'[i].d = ev'.data /\ fx'[i].s = APP_CONN]_vars

C4_Witness ==
    /\ BoardFrameDone
    /\ ev.data = BoardStateFrame
    /\ ble_peripheral_is_connected(peripheral)
    /\ NotifiesToApp(fx) = 1
    /\ \E i \in 1..Len(fx) : fx[i].k = "bt_gatt_notify" /\ fx[i].d = BoardStateFrame

RECURSIVE IsSubseq(_, _)
\* s can be obtained from t by leaving elements out
IsSubseq(s, t) ==
    IF Len(s) = 0 THEN TRUE
    ELSE IF Len(t) = 0 THEN FALSE
    ELSE IF Head(s) = Head(t) THEN IsSubseq(Tail(s), Tail(t))
    ELSE IsSubseq(s, Tail(t))

\* every request to deliver made by a step is for the frame whose callback
\* the step is, and there is at most one
ForwardsOnlyOwnFrame ==
    /\ WritesToBoard(fx) > 0 =>
         /\ ev.name = "rx_write_callback" /\ ev.off = 0
         /\ WritesToBoard(fx) = 1
    /\ NotifiesToApp(fx) > 0 =>
         /\ ev.name = "notify_callback"
         /\ NotifiesToApp(fx) = 1
    /\ \A i \in 1..Len(fx) :
         fx[i].k \in {"bt_gatt_write_without_response", "bt_gatt_notify"} =>
           fx[i].d = ev.data

\* C5: the relay never buffers.  In each direction the frames delivered are,
\* in order, without repetition and byte for byte, a subsequence of the
\* frames received; a delivery is requested only inside the callback that
\* received the frame, so a frame not forwarded there is never forwarded.
C5_NoBuffering ==
    /\ IsSubseq(hist.toBoard, hist.fromApp)
    /\ IsSubseq(hist.toApp, hist.fromBoard)
    /\ ForwardsOnlyOwnFrame

\* a frame was dropped, a later different one was forwarded, and the
\* dropped one was not sent after it
C5_Witness ==
    /\ Len(hist.fromApp) = 2
    /\ hist.fromApp[1] # hist.fromApp[2]
    /\ hist.toBoard = <<hist.fromApp[2]>>
    /\ AppFrameDone /\ ev.data = hist.fromApp[2]

\* C6 as claimed: the two link state machines are independent.  Connected
\* and disconnected events of the app's connection leave every variable of
\* the central link (handles, flags, connection, scan state) unchanged, and
\* those of the board's connection leave every variable of the peripheral
\* link (flags, connection, advertising state) unchanged.
C6_LinksIndependent ==
    [][/\ ev'.name \in {"app_connected", "app_disconnected"} =>
            /\ central' = central
            /\ radio'.scanning = radio.scanning
       /\ ev'.name \in {"board_connected", "board_disconnected"} =>
            /\ peripheral' = peripheral
            /\ radio'.advertising = radio.advertising]_vars

\* C7 as claimed: in the state after the disconnected event of the board's
\* connection the TX, CCC and RX handles are 0, connected and subscribed are
\* false, the connection reference is released, and a scan has been started
\* with the name filter set at startup, which no reconnect cycle alters: the
\* radio scans, on a request made with that name, and that name is stored.
C7_BoardDisconnectResets ==
    [][ev'.name = "board_disconnected" =>
         /\ central'.tx_handle = 0
         /\ central'.tx_ccc_handle = 0
         /\ central'.rx_handle = 0
         /\ ~central'.connected
         /\ ~central'.subscribed
         /\ central'.real_board_conn = NULL
         /\ central.real_board_conn # NULL =>
              /\ Count(fx', "bt_conn_unref") = 1
              /\ \A i \in 1..Len(fx') :
                   fx'[i].k = "bt_conn_unref" =>
                       fx'[i].s = central.real_board_conn
         /\ radio'.scanning
         /\ Count(fx', "bt_le_scan_start") = 1
         /\ \A i \in 1..Len(fx') :
              fx'[i].k = "bt_le_scan_start" => fx'[i].d = MILLENNIUM
         /\ central'.target_name_filter = MILLENNIUM]_vars

\* a failure of the central link on the way to Ready has just happened:
\* the connection could not be initiated, the connection attempt ended in
\* an error, the discovery could not be started or ended without the
\* handles, or the subscription request failed
CentralFailure ==
    /\ Running
    /\ \/ ev.name = "scan_callback" /\ ev.res = "ENOMEM"
       \/ ev.name = "board_connected" /\ ev.ret # 0
       \/ ev.name = "board_connected"
          /\ CountText(fx, "LOG_ERR", "Discovery start failed") = 1
       \/ ev.name = "discover_callback"
          /\ \/ CountText(fx, "LOG_ERR", "TX characteristic not found") = 1
             \/ CountText(fx, "LOG_ERR", "TX handles not discovered") = 1
             \/ CountText(fx, "LOG_ERR", "Subscribe failed") = 1

\* the central link is Ready, or scanning, or has a request in flight
CentralProgressing ==
    \/ ble_central_is_connected(central)
    \/ radio.scanning
    \/ radio.bl = "connecting"
    \/ radio.disc > 0
    \/ radio.sub = "pending"

\* C8 as claimed: after every transient failure of the central link the
\* program comes back, without outside help, to a state where the link is
\* scanning (or is Ready, or has a request in flight).
C8_FailuresRecover == CentralFailure ~> (CentralProgressing \/ ~Running)

\* both ends are there to stay: the firmware runs, the board's link is up
\* with its subscription in force, the app is connected with notifications
\* enabled
BothEndsUp ==
    /\ Running
    /\ radio.bl = "up" /\ radio.sub = "active"
    /\ radio.al = "up" /\ ble_peripheral_is_connected(peripheral)

\* C9 as claimed: if from some point on the board stays connected and
\* subscribed to and the app stays connected with notifications enabled,
\* then from some point on both links are Ready, whatever disconnects and
\* reconnects came before.
C9_ChurnEndsReady ==
    <>[]BothEndsUp =>
       <>[](ble_central_is_connected(central)
            /\ ble_peripheral_is_connected(peripheral))

\* C10: a subscription is requested only with the TX value handle and the
\* CCC handle both non-zero, and these are the handles requested; with
\* either handle 0, subscribe_to_tx returns an error, requests nothing and
\* leaves subscribed as it is.
C10_SubscribeNeedsBothHandles ==
    /\ \A i \in 1..Len(fx) :
         fx[i].k = "bt_gatt_subscribe" =>
           /\ central.tx_handle # 0 /\ central.tx_ccc_handle # 0
           /\ fx[i].h = central.tx_handle
           /\ fx[i].d = <<central.tx_ccc_handle>>
    /\ \A th, ch \in {0, central.tx_handle, central.tx_ccc_handle} :
         (th = 0 \/ ch = 0) =>
           LET c == [central EXCEPT !.tx_handle = th, !.tx_ccc_handle = ch]
               s == subscribe_to_tx(c, radio, usb_ready, "OK")
           IN /\ s.ret = "EINVAL"
              /\ Count(s.fx, "bt_gatt_subscribe") = 0
              /\ s.c.subscribed = central.subscribed
              /\ s.r = radio
    /\ (ev.name = "discover_callback" /\ ev.res = "NULL"
        /\ (central.tx_handle = 0 \/ central.tx_ccc_handle = 0)) =>
           Count(fx, "bt_gatt_subscribe") = 0 /\ ~central.subscribed

C10_Witness ==
    /\ ev.name = "discover_callback" /\ ev.res = "NULL"
    /\ Count(fx, "bt_gatt_subscribe") = 1
    /\ central.tx_handle # 0 /\ central.tx_ccc_handle # 0
    /\ central.subscribed

\* C11 as claimed: the central link is Ready only once the board has
\* acknowledged the subscription; ble_central_is_connected() is never true
\* while the request is issued and unanswered, or after it was rejected.
C11_ReadyOnlyAfterAck ==
    ble_central_is_connected(central) => radio.sub = "active"

\* C12: notify_callback with a NULL payload sets subscribed to false and
\* changes nothing else: connected, the connection reference and the three
\* handles stay as they are, the radio is asked nothing (no disconnect, no
\* scan), the peripheral is untouched, and nothing is forwarded or logged
\* as traffic.
C12_NullNotifyOnlyUnsubscribes ==
    [][ev'.name = "notify_null" =>
         /\ central' = [central EXCEPT !.subscribed = FALSE]
         /\ peripheral' = peripheral
         /\ radio'.scanning = radio.scanning
         /\ radio'.bl = radio.bl
         /\ fx' = LOG_WRN("Unsubscribed from TX notifications")]_vars

C12_Witness ==
    /\ ev.name = "notify_null"
    /\ central.connected /\ ~central.subscribed
    /\ central.real_board_conn = BOARD_CONN
    /\ central.tx_handle # 0 /\ central.tx_ccc_handle # 0 /\ central.rx_handle # 0
    /\ radio.bl = "up" /\ ~radio.scanning
    /\ fx = LOG_WRN("Unsubscribed from TX notifications")

\* what ble_central_send does with a frame in the current state
SendNow(data) == ble_central_send(central, radio, usb_ready, data, "OK")

CentralCannotSend ==
    \/ ~central.connected
    \/ central.real_board_conn = NULL
    \/ central.rx_handle = 0

\* C13 as claimed: ble_central_send fails with the not-connected condition
\* and writes nothing whenever the link is not connected or the RX handle
\* is 0; in every other state it issues exactly one write without response
\* to the RX handle.
C13_SendFailsNotConnected ==
    \A data \in AppFrames \ {<<>>} :
       IF CentralCannotSend
       THEN /\ SendNow(data).ret = "ENOTCONN"
            /\ WritesToBoard(SendNow(data).fx) = 0
       ELSE /\ WritesToBoard(SendNow(data).fx) = 1
            /\ \A i \in 1..Len(SendNow(data).fx) :
                 SendNow(data).fx[i].k = "bt_gatt_write_without_response" =>
                   /\ SendNow(data).fx[i].h = central.rx_handle
                   /\ SendNow(data).fx[i].d = data

\* C13, amended: ble_central_send writes nothing and fails with
\* not-connected (-ENOTCONN) when the link is not connected or has no
\* connection reference, and with invalid-argument (-EINVAL) when it is
\* connected but the RX handle is 0; in every other state it issues exactly
\* one write without response to the RX handle, with the frame's bytes.
C13_SendFailsByCause ==
    \A data \in AppFrames \ {<<>>} :
       IF ~central.connected \/ central.real_board_conn = NULL
       THEN /\ SendNow(data).ret = "ENOTCONN"
            /\ WritesToBoard(SendNow(data).fx) = 0
       ELSE IF central.rx_handle = 0
       THEN /\ SendNow(data).ret = "EINVAL"
            /\ WritesToBoard(SendNow(data).fx) = 0
       ELSE /\ SendNow(data).ret = "OK"
            /\ WritesToBoard(SendNow(data).fx) = 1
            /\ \A i \in 1..Len(SendNow(data).fx) :
                 SendNow(data).fx[i].k = "bt_gatt_write_without_response" =>
                   /\ SendNow(data).fx[i].h = central.rx_handle
                   /\ SendNow(data).fx[i].d = data
                   /\ SendNow(data).fx[i].s = central.real_board_conn

\* a frame reached ble_central_send with the link Ready and the RX handle
\* unresolved, and was refused with -EINVAL
C13_Witness ==
    /\ AppFrameDone
    /\ ble_central_is_connected(central) /\ central.rx_handle = 0
    /\ CountText(fx, "LOG_ERR", "RX handle not discovered") = 1
    /\ WritesToBoard(fx) = 0

\* what ble_peripheral_send does with a frame in the current state
NotifyNow(data) == ble_peripheral_send(peripheral, data, "OK")

\* C14 as claimed: ble_peripheral_send returns not-connected when no app is
\* connected and invalid-state when the app has not enabled notifications,
\* leaving the cached frame as it is and notifying nothing; the cached
\* frame is replaced by the sent bytes only when the send succeeds, and a
\* send that returns an error leaves it unchanged.
C14_CacheOnlyOnSuccess ==
    /\ [](\A data \in BoardFrames :
            /\ (~peripheral.connected \/ peripheral.app_conn = NULL) =>
                 /\ NotifyNow(data).ret = "ENOTCONN"
                 /\ NotifyNow(data).p = peripheral
                 /\ NotifiesToApp(NotifyNow(data).fx) = 0
            /\ (peripheral.connected /\ peripheral.app_conn # NULL
                /\ ~peripheral.tx_notifications_enabled) =>
                 /\ NotifyNow(data).ret = "EINVAL"
                 /\ NotifyNow(data).p = peripheral
                 /\ NotifiesToApp(NotifyNow(data).fx) = 0)
    /\ [][(BoardFrameStep /\ ble_peripheral_is_connected(peripheral)) =>
            IF CountText(fx', "LOG_ERR", "Failed to forward to app") = 0
            THEN peripheral'.tx_value =
                   SubSeq(ev'.data, 1, Min(Len(ev'.data), TX_VALUE_SIZE))
            ELSE peripheral'.tx_value = peripheral.tx_value]_vars

\* main has returned before the advertiser was on: no event follows
StartupAborted == phase = "exited" /\ ev.name = "main"

\* C15 as claimed: on every disconnect of the app's connection the connected
\* and the notifications-enabled flags are cleared, the connection reference
\* is released and one advertising start is requested, all inside the
\* disconnected callback; hence whenever the firmware runs with no app
\* connected it is advertising, or has just requested it.
C15_AppDisconnectRestartsAdvertising ==
    /\ [](Running /\ ~StartupAborted /\ peripheral.app_conn = NULL =>
            radio.advertising \/ Count(fx, "bt_le_adv_start") > 0)
    /\ [][ev'.name = "app_disconnected" =>
            /\ ~peripheral'.connected
            /\ ~peripheral'.tx_notifications_enabled
            /\ peripheral'.app_conn = NULL
            /\ Len(SelectSeq(fx', LAMBDA e : e.k = "bt_conn_unref"
                                             /\ e.s = APP_CONN)) = 1
            /\ Count(fx', "bt_le_adv_start") = 1]_vars

\* C16: a write to the RX or to the configuration characteristic at an
\* offset other than 0 fails with invalid-offset, and a configuration write
\* at offset 0 longer than the 20-byte buffer fails with invalid-length; in
\* each of these cases the stored configuration value stays as it was and
\* no frame reaches the relay callback.
C16_BadWritesRefused ==
    [][/\ (ev'.name \in {"rx_write_callback", "config_write_callback"}
           /\ ev'.off > 0) =>
            /\ ev'.ret = -BT_ATT_ERR_INVALID_OFFSET
            /\ peripheral'.config_value = peripheral.config_value
            /\ fx' = <<>>
       /\ (ev'.name = "config_write_callback" /\ ev'.off = 0
           /\ Len(ev'.data) > CONFIG_VALUE_SIZE) =>
            /\ ev'.ret = -BT_ATT_ERR_INVALID_ATTRIBUTE_LEN
            /\ peripheral'.config_value = peripheral.config_value
            /\ fx' = <<>>]_vars

\* a value was stored, then a write one byte too long was refused
C16_Witness ==
    /\ ev.name = "config_write_callback"
    /\ ev.off = 0
    /\ Len(ev.data) = CONFIG_VALUE_SIZE + 1
    /\ ev.ret = -BT_ATT_ERR_INVALID_ATTRIBUTE_LEN
    /\ peripheral.config_value[1] = 9
    /\ peripheral.config_value[2] = 0

\* C17 as claimed: after a successful write of a value v (0 to 20 bytes) to
\* the configuration characteristic, the next read at offset 0 returns v
\* itself, the same length and the same bytes, whatever was written before.
C17_ConfigRoundTrip ==
    [][(/\ ev.name = "config_write_callback" /\ ev.ret >= 0
        /\ ev'.name = "config_read_callback" /\ ev'.off = 0
        /\ ev'.ret >= 0
        /\ \A i \in 1..Len(fx') : fx'[i].h >= CONFIG_VALUE_SIZE) =>
         ev'.data = ev.data]_vars

\* C18 as claimed: a read of the data-out characteristic returns the frame
\* most recently delivered to the app, up to the 244 bytes of the cache:
\* the first min(len, 244) bytes of the last frame the radio accepted for
\* the app, and nothing if no frame was delivered yet.
C18_ReadReturnsLastDelivered ==
    (/\ ev.name = "tx_read_callback" /\ ev.off = 0
     /\ \A i \in 1..Len(fx) : fx[i].h >= TX_VALUE_SIZE) =>
       ev.data = SubSeq(hist.lastToApp, 1,
                        Min(Len(hist.lastToApp), TX_VALUE_SIZE))

\* bit k of the XOR of the first n bytes of data: the parity of the number
\* of those bytes that have bit k set
ParityOfBit(data, n, k) ==
    Cardinality({i \in 1..n : Bit(data[i], k) = 1}) % 2

\* C19: protocol_validate_crc is false for every input of length 0 or 1;
\* for an input of length n >= 2 it is true exactly when the last byte is
\* the XOR of the first n - 1 bytes.
C19_ValidateCrc ==
    ev.name = "protocol_validate_crc" =>
       IF Len(ev.data) < 2
       THEN ev.ret = 0
       ELSE (ev.ret = 1) <=>
              \A k \in 0..7 :
                 Bit(ev.data[Len(ev.data)], k) =
                    ParityOfBit(ev.data, Len(ev.data) - 1, k)

\* a three-byte sequence with a valid last byte was accepted
C19_Witness ==
    /\ ev.name = "protocol_validate_crc"
    /\ ev.res = "input"
    /\ ev.data = <<128, 1, 129>>
    /\ ev.ret = 1

\* C20 as claimed: for every byte sequence b, the empty one included, with
\* c = millennium_crc(b), protocol_validate_crc(b ++ [c]) is true, and it is
\* false after any single bit of b or of c is flipped.
C20_CrcRoundTripAll ==
    ev.name = "protocol_validate_crc" =>
       /\ ev.res = "framed" => ev.ret = 1
       /\ ev.res = "flipped" => ev.ret = 0

\* C20, amended: for every non-empty byte sequence b with
\* c = millennium_crc(b), protocol_validate_crc(b ++ [c]) is true, and it is
\* false after any single bit of b or of c is flipped.
C20_CrcRoundTripNonEmpty ==
    (ev.name = "protocol_validate_crc" /\ Len(ev.data) >= 2) =>
       /\ ev.res = "framed" => ev.ret = 1
       /\ ev.res = "flipped" => ev.ret = 0

\* a bit of the first byte of a framed sequence of the greatest length was
\* flipped, and the frame was refused
C20_Witness ==
    /\ ev.name = "protocol_validate_crc"
    /\ ev.res = "flipped"
    /\ Len(ev.data) = MaxCrcLen + 1
    /\ ev.off = 1
    /\ ev.ret = 0

\* the step decoded the frame in ev.data
Decoded == ev.name = "protocol_decode_and_log"

\* the frame's first byte with bit 7 cleared
Cmd == Strip(ev.data[1])

\* the message of the only record the decoder made
Msg == fx[1].m

\* the message is the grid of the frame, all 8 rows and the legend under
\* them: row 9 - r is rank r, and the
\* square of rank r, file f is byte 1 + (r-1)*8 + (f-1) (counted from 0)
\* with bit 7 cleared
IsGridOf(m, data) ==
    /\ m.t = "RESP: BOARD STATE"
    /\ Len(m.a) = 9
    /\ m.a[9] = FileLegend
    /\ \A r \in 1..8 :
         /\ Len(m.a[9 - r]) = 8
         /\ \A f \in 1..8 :
              m.a[9 - r][f] = data[(1 + (r - 1) * 8 + (f - 1)) + 1] % 128

\* C21 as claimed: a frame of at least 2 bytes whose first byte, bit 7
\* cleared, is 's' is rendered as the 8x8 grid if and only if it is exactly
\* 66 bytes long; at every other length the "(N bytes, expected 66)"
\* fallback is rendered, with N the length, never the grid.
C21_GridOnlyAt66 ==
    (Decoded /\ Len(ev.data) >= 2 /\ Cmd = 115) =>
       /\ Len(fx) = 1
       /\ IF Len(ev.data) = 66
          THEN IsGridOf(Msg, ev.data)
          ELSE /\ Msg.t = "RESP: BOARD STATE (bytes, expected 66)"
               /\ Msg.n = Len(ev.data)

\* C22: an LED command ('L' once bit 7 is cleared) of fewer than 3 bytes is
\* rendered as "incomplete"; one of 3 bytes or more is rendered with the
\* square (byte 1, bit 7 cleared), file = square mod 9 shown as a letter
\* a-h when in 1..8 and as '?' otherwise, and rank = square div 9; square
\* 10 is rendered as a1.
C22_LedSquare ==
    (Decoded /\ Len(ev.data) >= 1 /\ Cmd = 76) =>
       /\ Len(fx) = 1
       /\ IF Len(ev.data) < 3
          THEN Msg.t = "CMD: LED (incomplete)"
          ELSE /\ Msg.t = "CMD: LED"
               /\ Msg.n = ev.data[2] % 128
               /\ Msg.a[1] = (IF Msg.n % 9 \in 1..8
                              THEN <<97, 98, 99, 100, 101, 102, 103, 104>>[Msg.n % 9]
                              ELSE 63)
               /\ Msg.a[2] = Msg.n \div 9
               /\ Msg.n = 10 => (Msg.a[1] = 97 /\ Msg.a[2] = 1)

\* square 10, sent with the parity bit set, was rendered as a1
C22_Witness ==
    /\ Decoded
    /\ ev.data = <<204, 138, 177, 76>>
    /\ Msg.t = "CMD: LED" /\ Msg.n = 10
    /\ Msg.a = <<97, 1, 49>>

\* the texts the decoder renders for a frame of a known command
KnownTexts ==
    {"CMD: VERSION request", "RESP: VERSION =", "RESP: VERSION (empty)",
     "CMD: BOARD STATE request", "RESP: BOARD STATE",
     "RESP: BOARD STATE (bytes, expected 66)", "CMD: LED",
     "CMD: LED (incomplete)", "CMD: ALL LEDs OFF", "CMD: RESET", "RESP: ACK",
     "CMD: BEEP", "CMD: SCAN ON", "CMD: SCAN OFF"}

\* C23: decoding never fails.  Every non-empty frame, in either direction,
\* gives exactly one decoded record, in the frame's direction; a frame whose
\* first byte, bit 7 cleared, is neither printable nor CR nor LF gives a hex
\* dump labelled with the frame's length; a short frame of a known command
\* gives that command's fallback text.
C23_DecodingNeverFails ==
    (Decoded /\ Len(ev.data) > 0) =>
       /\ Len(fx) = 1
       /\ fx[1].k = "usb_console_log_decoded"
       /\ fx[1].s = ev.res
       /\ fx[1].out = usb_ready
       /\ IF ~(Cmd \in 32..126) /\ Cmd \notin {13, 10}
          THEN /\ Msg.t = "RAW" /\ Msg.n = Len(ev.data)
               /\ Len(Msg.a) > 0
               /\ Msg.a = SubSeq(ev.data, 1, Len(Msg.a))
          ELSE Msg.t \in KnownTexts \cup {"CMD: 'c' (0xhh) [", "CMD: 0xhh ["}
       /\ (Cmd = 118 /\ Len(ev.data) <= 2) => Msg.t = "RESP: VERSION (empty)"
       /\ (Cmd = 115 /\ Len(ev.data) < 66) =>
            Msg.t = "RESP: BOARD STATE (bytes, expected 66)"
       /\ (Cmd = 76 /\ Len(ev.data) < 3) => Msg.t = "CMD: LED (incomplete)"

\* a frame that is not text, longer than the text buffer can show, was
\* logged as a hex dump labelled with its length
C23_Witness ==
    /\ Decoded
    /\ ev.data = FrameOf(1, 100)
    /\ ev.res = DIR_BOARD_TO_APP
    /\ Len(fx) = 1
    /\ Msg.t = "RAW" /\ Msg.n = 100 /\ Len(Msg.a) < 100

\* main has just run and usb_console_init / bt_enable reported an error
SinkInitFailed == CountText(fx, "LOG_ERR", "USB console init failed") = 1

RadioInitFailed == CountText(fx, "LOG_ERR", "Bluetooth init failed") = 1

NothingStarted(calls, r) ==
    /\ Count(calls, "bt_le_adv_start") = 0
    /\ Count(calls, "bt_le_scan_start") = 0
    /\ ~r.advertising /\ ~r.scanning

\* C24 as claimed: if the output sink (the USB console) or the radio stack
\* is unavailable at startup, main returns the error code reported and
\* neither advertising nor scanning is ever started.
C24_InitErrorsAbort ==
    /\ [][(ev'.name = "main" /\ (SinkInitFailed' \/ RadioInitFailed')) =>
            /\ phase' = "exited"
            /\ ev'.res # "OK"
            /\ NothingStarted(fx', radio')]_vars
    /\ []((phase # "boot" /\ ~usb_ready) =>
            ~radio.advertising /\ ~radio.scanning)

\* C24, amended: if the radio stack is unavailable at startup (bt_enable
\* fails), main returns the error code reported and neither advertising nor
\* scanning is ever started.  If only the output sink is unavailable
\* (usb_console_init fails), the error is logged and the startup goes on:
\* advertising is requested and, with the advertiser on, main goes on to
\* request the scan as with a working sink (unless the central link counts
\* itself connected by then), and nothing is ever written to the sink.
C24_RadioErrorAborts ==
    /\ [][ev'.name = "main" =>
            /\ RadioInitFailed' =>
                 /\ phase' = "exited"
                 /\ ev'.res = "EIO"
                 /\ NothingStarted(fx', radio')
            /\ (SinkInitFailed' /\ ~RadioInitFailed') =>
                 /\ ~usb_ready'
                 /\ Count(fx', "bt_le_adv_start") = 1
                 /\ Count(fx', "bt_le_scan_start") = 0
                 /\ phase' = "main_adv_log" <=> radio'.advertising]_vars
    /\ [][ev'.name = "main_adv_log" => phase' = "main_scan_test"]_vars
    /\ [][ev'.name = "main_scan_test" =>
            (phase' = "main_scan_store" <=> ~central.connected)]_vars
    /\ [][ev'.name = "main_scan_store" =>
            phase' = IF main_vars.i < Len(MILLENNIUM) THEN "main_scan_store"
                     ELSE "main_scan"]_vars
    /\ [][ev'.name = "main_scan" =>
            /\ Count(fx', "bt_le_scan_start") = 1
            /\ phase' = "main_scan_log" <=>
                 \E i \in 1..Len(fx') : fx'[i].k = "bt_le_scan_start"
                                          /\ fx'[i].out
            /\ phase' = "main_scan_log" => radio'.scanning]_vars
    /\ [](phase = "exited" /\ RadioInitFailed =>
            ~radio.advertising /\ ~radio.scanning)
    /\ [](~usb_ready => \A i \in 1..Len(fx) : ~fx[i].out
                           \/ fx[i].k \notin {"usb_console_log_traffic",
                                               "usb_console_log_decoded",
                                               "usb_console_log_status",
                                               "usb_console_printf"})

\* bt_enable failed with a working sink: main returned the code, the error
\* was written to the sink, nothing was started
C24_Witness ==
    /\ ev.name = "main" /\ ev.res = "EIO"
    /\ phase = "exited"
    /\ usb_ready
    /\ RadioInitFailed
    /\ \E i \in 1..Len(fx) : fx[i].k = "usb_console_log_status" /\ fx[i].out
                              /\ fx[i].s = "ERROR: Bluetooth init failed"
    /\ NothingStarted(fx, radio)

\* states of the board's side the central link can be in, the rest of the
\* state being the current one
BoardSides ==
    { [central EXCEPT !.connected = cn, !.subscribed = sb, !.rx_handle = h,
                      !.real_board_conn = rc] :
        cn \in BOOLEAN, sb \in BOOLEAN, h \in {0, 11},
        rc \in {NULL, BOARD_CONN} }

\* C25: the relay is silent to the app about its failures.  A write to the
\* data-in characteristic at offset 0 is answered with success and the full
\* length, and the answer is the same whether the frame was forwarded,
\* dropped because the central link was not Ready, or refused or failed in
\* ble_central_send: two runs that differ only in the state of the board's
\* side give the app the same answer.
C25_AppSeesSuccess ==
    [][(ev'.name = "rx_write_callback" /\ ev'.off = 0) =>
         /\ ev'.ret = Len(ev'.data)
         /\ \A c \in BoardSides, werr \in {"OK", "ENOMEM", "ENOTCONN"} :
              rx_write_callback(c, radio, usb_ready, ev'.data, 0, werr).ret
                = ev'.ret]_vars

\* the write failed in the radio, and the app was answered with the length
C25_Witness ==
    /\ AppFrameDone
    /\ ev.ret = Len(ev.data)
    /\ ble_central_is_connected(central) /\ central.rx_handle # 0
    /\ CountText(fx, "LOG_ERR", "Write failed") = 1
    /\ CountText(fx, "LOG_ERR", "Failed to forward to board") = 1

\* the first call of the step is the raw record of the frame
RawFirst(calls, dir, data) ==
    /\ Count(calls, "usb_console_log_traffic") = 1
    /\ Len(calls) > 0
    /\ calls[1].k = "usb_console_log_traffic"
    /\ calls[1].s = dir
    /\ calls[1].d = data

\* C26 as claimed: in both directions the raw hex record of a frame is
\* emitted before the coordinator decides to forward or to drop it.  Every
\* board notification and every successful send to the board has exactly
\* one raw record, and it comes before the frame's decoded record and
\* before everything the decision causes (the write, the notify, the
\* warning of the drop).
C26_RawBeforeDecision ==
    [][/\ (BoardFrameStep /\ Len(ev'.data) > 0) =>
            RawFirst(fx', DIR_BOARD_TO_APP, ev'.data)
       /\ (AppFrameStep
           /\ Len(Delivered(fx', "bt_gatt_write_without_response")) > 0) =>
            RawFirst(fx', DIR_APP_TO_BOARD, ev'.data)]_vars

\* the place of the first call to k among calls
FirstIndex(calls, k) ==
    CHOOSE i \in 1..Len(calls) :
       calls[i].k = k /\ \A j \in 1..(i - 1) : calls[j].k # k

\* C27 as claimed: on an advertisement that matches the scan filter the
\* scan is stopped and then exactly one connect request is issued; if the
\* request fails, the scan is started again with the stored filter inside
\* the same callback, and is on when the callback returns; an advertisement
\* that does not match causes no connect request.
C27_MatchStopsThenConnects ==
    [][ev'.name = "scan_callback" =>
         IF ev'.res = "ignored"
         THEN /\ Count(fx', "bt_conn_le_create") = 0
              /\ central' = central /\ radio' = radio
         ELSE /\ Count(fx', "bt_le_scan_stop") = 1
              /\ Count(fx', "bt_conn_le_create") = 1
              /\ FirstIndex(fx', "bt_le_scan_stop")
                   < FirstIndex(fx', "bt_conn_le_create")
              /\ ev'.res = "OK" => ~radio'.scanning
              /\ ev'.res # "OK" =>
                   /\ Count(fx', "bt_le_scan_start") = 1
                   /\ FirstIndex(fx', "bt_conn_le_create")
                        < FirstIndex(fx', "bt_le_scan_start")
                   /\ \A i \in 1..Len(fx') :
                        fx'[i].k = "bt_le_scan_start" =>
                          fx'[i].d = central.target_name_filter
                   /\ central'.target_name_filter = central.target_name_filter
                   /\ radio'.scanning]_vars

\* name contains filter, letters compared without regard to case
ContainsCI(name, filter) ==
    \E i \in 1..(Len(name) - Len(filter) + 1) :
       \A j \in 1..Len(filter) :
          Lower(name[i + j - 1]) = Lower(filter[j])

\* C28 as claimed: an advertisement is accepted if it carries the proxied
\* 128-bit service UUID, and otherwise exactly when its advertised name
\* contains the stored name filter, at any position and without regard to
\* case; the filter is the one stored at startup.
C28_FilterAcceptance ==
    ev.name = "scan_callback_done" =>
       /\ central.target_name_filter = MILLENNIUM
       /\ (ev.ret = 1) <=>
             \/ ev.off \in {1, 2}
             \/ ContainsCI(ev.data, central.target_name_filter)

\* C29 as claimed: ble_central_start_scan called while the connection to
\* the board is established does nothing and reports success: it returns 0,
\* requests no scan start, and leaves the stored name filter and the rest of
\* the link's state as they are, whatever name it is given; so no step taken
\* while the board stays connected requests a scan start or stores a name.
C29_StartScanWhileConnected ==
    /\ [](radio.bl = "up" =>
            \A name \in {NULL_NAME, MILLENNIUM, <<67, 72, 69, 83, 83>>},
               serr \in bt_le_scan_start_results(radio) :
               LET s == ble_central_start_scan(central, radio, usb_ready,
                                               name, serr)
               IN /\ s.ret = "OK"
                  /\ s.c = central
                  /\ s.r = radio
                  /\ Count(s.fx, "bt_le_scan_start") = 0
                  /\ Count(s.fx, "usb_console_log_status") = 0)
    /\ [][(radio.bl = "up" /\ radio'.bl = "up") =>
            /\ Count(fx', "bt_le_scan_start") = 0
            /\ central'.target_name_filter = central.target_name_filter
            /\ radio'.scanning = radio.scanning]_vars

\* C30 as claimed: in a discovery pass an attribute with the CCC UUID is
\* recorded as the TX configuration handle if and only if, when it is
\* reported, the TX handle is already non-zero and the configuration handle
\* still zero, and no other attribute changes the configuration handle.  So
\* a CCC reported before the TX characteristic of the pass is never bound,
\* and the handle, once bound, keeps its value for the rest of the board's
\* connection.
C30_CccBinding ==
    /\ [][ev'.name = "discover_callback" =>
            /\ central'.tx_ccc_handle =
                  (IF ev'.res = "CCC" /\ central.tx_handle # 0
                      /\ central.tx_ccc_handle = 0
                   THEN ev'.off ELSE central.tx_ccc_handle)
            /\ central'.tx_ccc_handle # central.tx_ccc_handle =>
                 \E j \in 1..(radio.disc - 1) :
                    Tables[radio.tbl][j].uuid = "TX"]_vars
    /\ [][(radio.bl = "up" /\ radio'.bl = "up" /\ central.tx_ccc_handle # 0) =>
            central'.tx_ccc_handle = central.tx_ccc_handle]_vars

\* the discovery of the connected board has just ended without a TX handle
DiscoveryFailed ==
    /\ Running
    /\ ev.name = "discover_callback" /\ ev.res = "NULL"
    /\ CountText(fx, "LOG_ERR", "TX characteristic not found") = 1
    /\ radio.bl = "up"
    /\ central.connected

\* C31 as claimed: at the end of the discovery a subscription request is
\* issued if the TX handle was found; if it was not, no subscription is
\* requested, the failure is logged, and the link stays connected and not
\* Ready, with no new discovery or subscription request, until a disconnect
\* occurs.
C31_DiscoveryEnd ==
    /\ [][(ev'.name = "discover_callback" /\ ev'.res = "NULL") =>
            IF central.tx_handle # 0
            THEN Count(fx', "bt_gatt_subscribe") = 1
            ELSE /\ Count(fx', "bt_gatt_subscribe") = 0
                 /\ CountText(fx', "LOG_ERR", "TX characteristic not found") = 1
                 /\ central'.connected = central.connected
                 /\ ~ble_central_is_connected(central')]_vars
    /\ [][(DiscoveryFailed
           /\ ev'.name \notin {"board_disconnected", "app_disconnected"}) =>
            /\ central'.connected
            /\ ~ble_central_is_connected(central')
            /\ Count(fx', "bt_gatt_subscribe") = 0
            /\ Count(fx', "bt_gatt_discover") = 0]_vars

\* a thread between taking and releasing the mutex: it formats into
\* output_buf or writes it out
InSink(t) ==
    console.thread[t].pc \in {"format", "hex", "newline", "write", "out",
                              "unlock"}

IsPrefix(a, b) == Len(a) <= Len(b) /\ a = SubSeq(b, 1, Len(a))

\* C32: at most one caller is between lock and unlock (formatting into or
\* writing out output_buf) at a time; what has been written to the device
\* is the whole records of the calls in the order in which they took the
\* mutex, each contiguous, of which only the record of the call that holds
\* the mutex can be incomplete; with the mutex free every record is whole.
C32_SinkExclusive ==
    /\ Cardinality({t \in Threads : InSink(t)}) <= 1
    /\ \A t \in Threads : InSink(t) => console.output_mutex = t
    /\ IsPrefix(console.uart, RecordsOf(console.acquired))
    /\ console.acquired # <<>> =>
         Len(console.uart) >=
           Len(RecordsOf(SubSeq(console.acquired, 1,
                                Len(console.acquired) - 1)))
    /\ console.output_mutex = "none" =>
         console.uart = RecordsOf(console.acquired)

\* the callback thread is in the middle of writing a traffic record out,
\* after a whole record of the main thread, which waits for the mutex again
C32_Witness ==
    /\ usb_ready
    /\ console.thread[BT_RX_THREAD].pc = "out"
    /\ console.thread[BT_RX_THREAD].fn = "usb_console_log_traffic"
    /\ console.thread[BT_RX_THREAD].i >= 1
    /\ console.thread[BT_RX_THREAD].i < console.thread[BT_RX_THREAD].n
    /\ console.thread[MAIN_THREAD].pc = "lock"
    /\ Len(console.acquired) = Len(UsbInitCalls(usb_ready)) + 2
    /\ console.acquired[Len(UsbInitCalls(usb_ready)) + 1].who = MAIN_THREAD

\* C33: in every state, if connected is false then subscribed is false and
\* the TX, TX-CCC and RX handles are 0; and if the central link is Ready
\* (connected and subscribed) then real_board_conn is not NULL and the
\* link-layer connection to the board is established.
C33_CentralConsistent ==
    /\ ~central.connected =>
         /\ ~central.subscribed
         /\ central.tx_handle = 0
         /\ central.tx_ccc_handle = 0
         /\ central.rx_handle = 0
    /\ ble_central_is_connected(central) =>
         /\ central.real_board_conn # NULL
         /\ radio.bl = "up"

\* calls of k made on a connection object
CallsOn(calls, k, conn) ==
    Len(SelectSeq(calls, LAMBDA e : e.k = k /\ e.s = conn))

\* the step takes a reference: bt_conn_le_create succeeds, or bt_conn_ref
Acquires(calls, conn) ==
    \/ \E i \in 1..Len(calls) :
         calls[i].k = "bt_conn_le_create" /\ calls[i].s = conn /\ calls[i].out
    \/ CallsOn(calls, "bt_conn_ref", conn) > 0

\* C34: each link owns at most one connection handle for the lifetime of
\* its connection: a handle is acquired only when none is held; a handle is
\* released (bt_conn_unref) at most once in a step, only in the disconnect
\* event of that same connection, and only when its link-layer connection
\* is no longer established; and a handle that becomes NULL has been
\* released in that step.
C34_HandleOwnership ==
    [][/\ Acquires(fx', BOARD_CONN) => central.real_board_conn = NULL
       /\ Acquires(fx', APP_CONN) => peripheral.app_conn = NULL
       /\ CallsOn(fx', "bt_conn_unref", BOARD_CONN) > 0 =>
            /\ CallsOn(fx', "bt_conn_unref", BOARD_CONN) = 1
            /\ ev'.name = "board_disconnected"
            /\ central.real_board_conn = BOARD_CONN
            /\ radio'.bl # "up"
       /\ CallsOn(fx', "bt_conn_unref", APP_CONN) > 0 =>
            /\ CallsOn(fx', "bt_conn_unref", APP_CONN) = 1
            /\ ev'.name = "app_disconnected"
            /\ peripheral.app_conn = APP_CONN
            /\ radio'.al # "up"
       /\ (central.real_board_conn # NULL /\ central'.real_board_conn = NULL) =>
            CallsOn(fx', "bt_conn_unref", BOARD_CONN) = 1
       /\ (peripheral.app_conn # NULL /\ peripheral'.app_conn = NULL) =>
            CallsOn(fx', "bt_conn_unref", APP_CONN) = 1]_vars

\* C35: a write of zero bytes by the app to the RX characteristic at offset
\* 0 returns 0 and has no other effect: nothing is decoded, logged or
\* written to the board, and the state of both links and of the radio is
\* unchanged, whether or not the central link is Ready.
C35_EmptyWrite ==
    [][(ev'.name = "rx_write_callback" /\ ev'.data = <<>> /\ ev'.off = 0) =>
         /\ ev'.ret = 0
         /\ fx' = <<>>
         /\ central' = central
         /\ peripheral' = peripheral
         /\ radio' = radio
         /\ usb_ready' = usb_ready]_vars

\* an empty write was made while the central link was Ready and a frame
\* with bytes would have been written to the board
C35_Witness ==
    /\ ev.name = "rx_write_callback" /\ ev.data = <<>> /\ ev.off = 0
    /\ ev.ret = 0
    /\ fx = <<>>
    /\ usb_ready
    /\ ble_central_is_connected(central)
    /\ central.real_board_conn # NULL
    /\ central.rx_handle # 0

====
